---- MODULE Spec2Model ----
(***************************************************************************)
(* Lead enrichment (app/scrapers/enrichment.py): the single-lead pipeline  *)
(* LeadEnricher.enrich_lead, its helpers, and the thread-pool driver       *)
(* LeadEnricher.enrich_bulk.                                                *)
(*                                                                         *)
(* Text is a sequence of one-character strings, so that lower(), split(),  *)
(* endswith(), replace() and the regular expressions that only test        *)
(* character classes are computed, not assumed.  A page, a bio or a        *)
(* headline is represented by what the code's regular expressions find in  *)
(* it (the matches, in order of occurrence).                               *)
(***************************************************************************)
EXTENDS Integers, Sequences, FiniteSets, TLC

VARIABLES
    leads,        \* the submitted lead dicts (the caller's objects)
    submitted,    \* what each of them held when it was submitted
    api_key,      \* LeadEnricher.hunter_api_key is configured
    fr,           \* fr[t]: the locals of the enrich_lead call t
    env,          \* answers already given by Fetcher / DNS / SMTP / finder
    mode,         \* which driver runs: "single", "repeat", "bulk", "score",
                  \* "verify", "pattern"
    max_workers,  \* enrich_bulk: size of the thread pool
    futures,      \* enrich_bulk: state of the future of each lead
    results,      \* enrich_bulk: the list `enriched` being built
    bpc,          \* enrich_bulk: position of the calling thread
    call          \* modes "score", "verify", "pattern": the arguments and the result of
                  \* the call of the function under study

vars == <<leads, submitted, api_key, fr, env, mode, max_workers, futures, results,
          bpc, call>>

----------------------------------------------------------------------------
(* Text helpers (Python str methods used by the code) *)

UpperLetters == <<"A","B","C","D","E","F","G","H","I","J","K","L","M",
                  "N","O","P","Q","R","S","T","U","V","W","X","Y","Z">>
LowerLetters == <<"a","b","c","d","e","f","g","h","i","j","k","l","m",
                  "n","o","p","q","r","s","t","u","v","w","x","y","z">>
Digits == {"0","1","2","3","4","5","6","7","8","9"}

IsLowerLetter(c) == \E i \in 1..26 : LowerLetters[i] = c
IsUpperLetter(c) == \E i \in 1..26 : UpperLetters[i] = c

LowerChar(c) ==
    IF IsUpperLetter(c)
    THEN LowerLetters[CHOOSE i \in 1..26 : UpperLetters[i] = c]
    ELSE c

\* str.lower()
Lower(s) == [i \in 1..Len(s) |-> LowerChar(s[i])]

\* str.startswith / str.endswith
StartsWith(s, p) == Len(p) <= Len(s) /\ SubSeq(s, 1, Len(p)) = p
EndsWith(s, p) == Len(p) <= Len(s) /\ SubSeq(s, Len(s) - Len(p) + 1, Len(s)) = p

\* `sub in s`
Contains(s, sub) ==
    \E i \in 1..(Len(s) - Len(sub) + 1) : SubSeq(s, i, i + Len(sub) - 1) = sub

\* str.find: first index of sub in s, 0 when absent
Find(s, sub) ==
    IF Contains(s, sub)
    THEN CHOOSE i \in 1..(Len(s) - Len(sub) + 1) :
            /\ SubSeq(s, i, i + Len(sub) - 1) = sub
            /\ \A j \in 1..(i - 1) : SubSeq(s, j, j + Len(sub) - 1) # sub
    ELSE 0

\* str.split(sep) for a one-character separator: keeps empty tokens
RECURSIVE Split(_, _)
Split(s, sep) ==
    IF Find(s, <<sep>>) = 0 THEN <<s>>
    ELSE <<SubSeq(s, 1, Find(s, <<sep>>) - 1)>>
            \o Split(SubSeq(s, Find(s, <<sep>>) + 1, Len(s)), sep)

\* the tokens of a list that are not empty
RECURSIVE NonEmpty(_)
NonEmpty(toks) ==
    IF toks = <<>> THEN <<>>
    ELSE (IF Head(toks) = <<>> THEN <<>> ELSE <<Head(toks)>>) \o NonEmpty(Tail(toks))

\* str.split(): split on runs of white space, no empty tokens
SplitWS(s) == NonEmpty(Split(s, " "))

\* str.strip()
RECURSIVE LStrip(_)
LStrip(s) == IF s # <<>> /\ Head(s) = " " THEN LStrip(Tail(s)) ELSE s
RECURSIVE RStripChars(_, _)
RStripChars(s, chars) ==
    IF s # <<>> /\ s[Len(s)] \in chars THEN RStripChars(SubSeq(s, 1, Len(s) - 1), chars) ELSE s
Strip(s) == RStripChars(LStrip(s), {" "})

\* str.replace(old, '') : every occurrence removed, left to right
RECURSIVE Remove(_, _)
Remove(s, old) ==
    IF Find(s, old) = 0 THEN s
    ELSE SubSeq(s, 1, Find(s, old) - 1)
            \o Remove(SubSeq(s, Find(s, old) + Len(old), Len(s)), old)

\* list membership and list(set(...)) helpers
InSeq(x, q) == \E i \in 1..Len(q) : q[i] = x
Range(q) == {q[i] : i \in 1..Len(q)}
Perms(S) == {q \in [1..Cardinality(S) -> S] : Range(q) = S}

Min(a, b) == IF a < b THEN a ELSE b
Max(a, b) == IF a > b THEN a ELSE b

\* Python None / '' for text values; truthiness of a text value
None == <<>>
Truthy(s) == s # <<>>

----------------------------------------------------------------------------
(* dict helpers: a dict is a function whose DOMAIN is the set of its keys *)

Get(d, k, default) == IF k \in DOMAIN d THEN d[k] ELSE default
Put(d, k, v) == [x \in (DOMAIN d) \cup {k} |-> IF x = k THEN v ELSE d[x]]
Has(d, k) == k \in DOMAIN d
\* d.get(k) is truthy, for a key holding text
GetText(d, k) == Get(d, k, None)

----------------------------------------------------------------------------
(* Program constants *)

EMAIL_BLACKLIST ==
  <<<<"e","x","a","m","p","l","e",".","c","o","m">>,
    <<"t","e","s","t",".","c","o","m">>,
    <<"e","m","a","i","l",".","c","o","m">>,
    <<"y","o","u","r","e","m","a","i","l",".","c","o","m">>,
    <<"s","e","n","t","r","y",".","i","o">>,
    <<"w","i","x","p","r","e","s","s",".","c","o","m">>,
    <<"g","o","o","g","l","e","a","p","i","s",".","c","o","m">>,
    <<"w","3",".","o","r","g">>,
    <<"s","c","h","e","m","a",".","o","r","g">>,
    <<"g","r","a","v","a","t","a","r",".","c","o","m">>,
    <<"w","o","r","d","p","r","e","s","s",".","c","o","m">>>>
FILE_EXT_BLACKLIST ==
  <<<<".","p","n","g">>,
    <<".","j","p","g">>,
    <<".","g","i","f">>,
    <<".","c","s","s">>,
    <<".","j","s">>,
    <<".","s","v","g">>,
    <<".","w","e","b","p">>,
    <<".","i","c","o">>>>
useless_domains ==
  <<<<"y","o","u","t","u","b","e",".","c","o","m">>,
    <<"y","o","u","t","u",".","b","e">>,
    <<"i","n","s","t","a","g","r","a","m",".","c","o","m">>,
    <<"t","i","k","t","o","k",".","c","o","m">>,
    <<"t","w","i","t","t","e","r",".","c","o","m">>,
    <<"x",".","c","o","m">>,
    <<"f","a","c","e","b","o","o","k",".","c","o","m">>,
    <<"l","i","n","k","t","r",".","e","e">>,
    <<"s","t","a","n",".","s","t","o","r","e">>,
    <<"b","e","a","c","o","n","s",".","a","i">>,
    <<"b","i","t",".","l","y">>,
    <<"s","p","o","t","i","f","y",".","c","o","m">>>>
LegalSuffixes ==
  <<<<"i","n","c">>,
    <<"l","l","c">>,
    <<"l","t","d">>,
    <<"c","o">>,
    <<"c","o","r","p">>,
    <<"g","r","o","u","p">>,
    <<"h","o","l","d","i","n","g","s">>>>
T_http == <<"h","t","t","p">>
T_https == <<"h","t","t","p","s",":","/","/">>
T_www == <<"w","w","w",".">>
T_contact == <<"/","c","o","n","t","a","c","t">>
T_contact_us == <<"/","c","o","n","t","a","c","t","-","u","s">>
T_about == <<"/","a","b","o","u","t">>
T_about_us == <<"/","a","b","o","u","t","-","u","s">>
T_com == <<".","c","o","m">>
T_io == <<".","i","o">>
T_co == <<".","c","o">>
T_contact_at == <<"c","o","n","t","a","c","t","@">>
T_info_at == <<"i","n","f","o","@">>


\* r'[A-Za-z0-9_]' (\w) or white space: what re.sub(r'[^\w\s]', '', name) keeps
IsWordOrSpace(c) ==
    IsLowerLetter(c) \/ IsUpperLetter(c) \/ c \in Digits \/ c = "_" \/ c = " "
\* r'[a-z0-9]': what the slug keeps
IsSlugChar(c) == IsLowerLetter(c) \/ c \in Digits

----------------------------------------------------------------------------
(* Text Signal Extractor *)

\* _is_valid_email
_is_valid_email(email) ==
    LET lower == Lower(email) IN
    /\ ~ \E i \in 1..Len(EMAIL_BLACKLIST) : Contains(lower, EMAIL_BLACKLIST[i])
    /\ ~ \E i \in 1..Len(FILE_EXT_BLACKLIST) : EndsWith(lower, FILE_EXT_BLACKLIST[i])

\* the first valid address among the regex matches, None when there is none
FirstValid(matches) ==
    LET valid == SelectSeq(matches, _is_valid_email) IN
    IF valid # <<>> THEN valid[1] ELSE None

\* _extract_from_text(text): text is given by its EMAIL_RE matches and by the
\* phone _extract_phone_from_text finds in it
_extract_from_text(text) ==
    IF ~ text.truthy THEN [email |-> None, phone |-> None]
    ELSE [email |-> FirstValid(text.emails), phone |-> text.phone]

----------------------------------------------------------------------------
(* Domain Resolver *)

\* urlparse(url).netloc
Netloc(url) ==
    LET c == Find(url, <<":">>) IN
    IF c > 0 /\ SubSeq(url, c + 1, c + 2) = <<"/", "/">>
    THEN LET rest == SubSeq(url, c + 3, Len(url))
             stop == {i \in 1..Len(rest) : rest[i] \in {"/", "?", "#"}}
         IN IF stop = {} THEN rest
            ELSE SubSeq(rest, 1, (CHOOSE i \in stop : \A j \in stop : i <= j) - 1)
    ELSE <<>>

WithScheme(website) ==
    IF ~ StartsWith(website, T_http) THEN T_https \o website ELSE website

\* _extract_domain
_extract_domain(website) ==
    LET w == WithScheme(website)
        domain == IF Netloc(w) # <<>> THEN Netloc(w) ELSE w
    IN Remove(domain, T_www)

\* website_is_useful (line 47)
WebsiteIsUseful(website) ==
    /\ Truthy(website)
    /\ ~ \E i \in 1..Len(useless_domains) : Contains(Lower(website), useless_domains[i])

\* the names _find_company_domain collects, in order: company, then the
\* names its markers and regular expressions take from the headline
CompanyNames(lead_data) ==
    LET company == Get(lead_data, "company", None)
        headline == Get(lead_data, "headline", [truthy |-> FALSE, names |-> <<>>])
    IN (IF Truthy(company) THEN <<company>> ELSE <<>>)
        \o (IF headline.truthy THEN headline.names ELSE <<>>)

\* lines 413-419: punctuation removed, short names dropped, first of each
\* lower-cased name kept
RECURSIVE UniqueCompanies(_, _)
UniqueCompanies(names, seen) ==
    IF names = <<>> THEN <<>>
    ELSE LET clean == Strip(SelectSeq(Head(names), IsWordOrSpace)) IN
         IF clean # <<>> /\ Lower(clean) \notin seen /\ Len(clean) > 2
         THEN <<clean>> \o UniqueCompanies(Tail(names), seen \cup {Lower(clean)})
         ELSE UniqueCompanies(Tail(names), seen)

\* a variant of StripLegalSuffix that leaves the name as it is
KeepLegalSuffix(clean) == clean

\* re.sub(r'\s+(inc|llc|ltd|co|corp|group|holdings)\.?$', '', clean)
StripLegalSuffix(clean) ==
    LET body == IF clean # <<>> /\ clean[Len(clean)] = "." 
                THEN SubSeq(clean, 1, Len(clean) - 1) ELSE clean
        toks == Split(body, " ")
        last == toks[Len(toks)]
    IN IF Len(toks) >= 2 /\ InSeq(last, LegalSuffixes)
       THEN RStripChars(SubSeq(body, 1, Len(body) - Len(last)), {" "})
       ELSE clean

\* the guesses of _guess_domain, in the order it tries them
GuessList(company_name) ==
    LET clean == StripLegalSuffix(Strip(Lower(company_name)))
        slug == SelectSeq(clean, IsSlugChar)
        parts == SplitWS(clean)
    IN <<slug \o T_com, slug \o T_io, slug \o T_co>>
        \o (IF Contains(clean, <<" ">>) /\ Len(parts) = 2
            THEN <<parts[1] \o parts[2] \o T_com>> ELSE <<>>)

RECURSIVE Flatten(_)
Flatten(qq) == IF qq = <<>> THEN <<>> ELSE Head(qq) \o Flatten(Tail(qq))

\* every MX lookup _find_company_domain may make, in order: the guesses of
\* the first three unique names
DomainGuesses(lead_data) ==
    LET unique == UniqueCompanies(CompanyNames(lead_data), {})
        first3 == SubSeq(unique, 1, Min(3, Len(unique)))
    IN Flatten([i \in 1..Len(first3) |-> GuessList(first3[i])])

----------------------------------------------------------------------------
(* Pattern Detector and templated guesses *)

\* r'^[a-z][a-z]+$'
IsBareAlpha(s) == Len(s) >= 2 /\ \A i \in 1..Len(s) : IsLowerLetter(s[i])
\* r'^[a-z]\.[a-z]+$'
IsInitialDotAlpha(s) ==
    /\ Len(s) >= 3 /\ IsLowerLetter(s[1]) /\ s[2] = "."
    /\ \A i \in 3..Len(s) : IsLowerLetter(s[i])

\* _detect_pattern; "" stands for None
_detect_pattern(local_part) ==
    LET parts == Split(local_part, ".") IN
    IF Contains(local_part, <<".">>) /\ Len(parts) = 2
    THEN (IF Len(parts[1]) = 1 THEN "f.last" ELSE "first.last")
    ELSE IF IsBareAlpha(local_part) THEN "first"
    ELSE IF IsInitialDotAlpha(local_part) THEN "f.last"
    ELSE ""

\* _apply_pattern; None for a pattern that is no key of `templates`
_apply_pattern(pattern, first, last, domain) ==
    CASE pattern = "first.last" -> first \o <<".">> \o last \o <<"@">> \o domain
      [] pattern = "first"      -> first \o <<"@">> \o domain
      [] pattern = "f.last"     -> <<first[1]>> \o <<".">> \o last \o <<"@">> \o domain
      [] pattern = "flast"      -> <<first[1]>> \o last \o <<"@">> \o domain
      [] pattern = "firstlast"  -> first \o last \o <<"@">> \o domain
      [] OTHER -> None

\* full_name.lower().strip().split()
NameParts(full_name) == SplitWS(Strip(Lower(full_name)))

\* _predict_email_from_pattern
_predict_email_from_pattern(full_name, website, site_emails) ==
    LET domain == _extract_domain(website)
        parts == NameParts(full_name)
        AtDomain(e) == EndsWith(Lower(e), <<"@">> \o domain)
        domain_emails == SelectSeq(site_emails, AtDomain)
    IN IF ~ Truthy(domain) THEN None
       ELSE IF Len(parts) < 2 THEN None
       ELSE IF domain_emails = <<>> THEN None
       ELSE LET sample == Lower(domain_emails[1])
                local == Split(sample, "@")[1]
                pattern == _detect_pattern(local)
            IN IF pattern = "" THEN None
               ELSE _apply_pattern(pattern, parts[1], parts[Len(parts)], domain)

\* _generate_email_candidates
_generate_email_candidates(full_name, website) ==
    LET domain == _extract_domain(website)
        parts == NameParts(full_name)
    IN IF ~ Truthy(domain) THEN <<>>
       ELSE IF Len(parts) < 2 THEN <<>>
       ELSE LET first == parts[1]
                last == parts[Len(parts)]
                at == <<"@">> \o domain
            IN << first \o <<".">> \o last \o at,
                  first \o at,
                  first \o last \o at,
                  <<first[1]>> \o last \o at,
                  <<first[1]>> \o <<".">> \o last \o at,
                  T_contact_at \o domain,
                  T_info_at \o domain >>

----------------------------------------------------------------------------
(* SMTP Verifier *)

\* A character str.encode('ascii') rejects (smtplib encodes every command)
NonAscii == {"e_acute"}
IsAscii(s) == \A i \in 1..Len(s) : s[i] \notin NonAscii

\* a variant of CatchAllScore that caps the score at 30
CatchAllCap(score) == Min(score - 40, 30)

\* line 331
CatchAllScore(score) == Max(score - 40, 30)

\* _verify_email_smtp, the mail system answering a (a.mx: the MX lookup
\* returns records; the other fields: see Sessions): the dict it returns,
\* or raised = TRUE when an exception leaves it (smtplib raises
\* UnicodeEncodeError, which is no OSError, on sending RCPT TO an address
\* that is not ASCII)
_verify_email_smtp(email, a) ==
    LET parts == Split(email, "@")
        r0 == [raised |-> FALSE, exists |-> FALSE, accept_all |-> FALSE, score |-> 0]
    IN IF Len(parts) # 2 \/ parts[2] = <<>> THEN r0
       ELSE IF ~ a.mx THEN r0
       ELSE IF a.pre = "exc" THEN [r0 EXCEPT !.score = 10 + 20]
       ELSE IF ~ IsAscii(email)
            THEN (IF a.quit = "bad" THEN [r0 EXCEPT !.score = 10 + 20]
                  ELSE [r0 EXCEPT !.raised = TRUE])
       ELSE IF a.rcpt1 = "exc" THEN [r0 EXCEPT !.score = 10 + 20]
       ELSE LET exists == (a.rcpt1 = "250")
                s1 == IF exists THEN 10 + 80 ELSE 10
            IN IF a.rcpt2 = "exc"
               THEN [r0 EXCEPT !.exists = exists, !.score = s1 + 20]
               ELSE LET accept_all == (a.rcpt2 = "250")
                        s2 == IF accept_all THEN CatchAllScore(s1) ELSE s1
                    IN [raised |-> FALSE, exists |-> exists, accept_all |-> accept_all,
                        score |-> IF a.quit = "bad" THEN s2 + 20 ELSE s2]

----------------------------------------------------------------------------
(* Candidate Scorer and Lead Quality Scorer *)

\* lines 343-362: points by source
SourcePoints(source, site_emails_count) ==
    CASE source = "bio"          -> 90
      [] source = "website"      -> 70
      [] source = "contact_page" -> 60
      [] source = "hunter.io"    -> 80
      [] source = "smtp_guess"   -> 70
      [] source = "bio_link"     -> 65
      [] source = "pattern"      ->
            40 + (IF site_emails_count >= 3 THEN 15
                  ELSE IF site_emails_count >= 1 THEN 10 ELSE 0)
      [] OTHER -> 0

\* a variant of AcceptAllPenalty that penalises only an address the server
\* also accepted
PenaltyWhenVerified(smtp_result) ==
    IF smtp_result.accept_all /\ smtp_result.exists THEN 20 ELSE 0

\* a variant of AcceptAllPenalty that takes 40 points, as the verifier does
\* from its own score
HeavyPenalty(smtp_result) == IF smtp_result.accept_all THEN 40 ELSE 0

\* lines 367-368
AcceptAllPenalty(smtp_result) == IF smtp_result.accept_all THEN 20 ELSE 0

\* a variant of ScoreWith that starts from the score of the verifier
ScoreOnVerifierScore(email, source, site_emails_count, smtp_result) ==
    LET score == smtp_result.score + SourcePoints(source, site_emails_count)
                    + (IF smtp_result.exists THEN 10 ELSE 0)
                    - AcceptAllPenalty(smtp_result)
    IN [email |-> email, score |-> Min(score, 100), source |-> source,
        verified |-> smtp_result.exists, accept_all |-> smtp_result.accept_all]

\* lines 364-376: the dict _score_and_verify_email returns, given the
\* result of its _verify_email_smtp call
ScoreWith(email, source, site_emails_count, smtp_result) ==
    LET score == SourcePoints(source, site_emails_count)
                    + (IF smtp_result.exists THEN 10 ELSE 0)
                    - AcceptAllPenalty(smtp_result)
    IN [email |-> email, score |-> Min(score, 100), source |-> source,
        verified |-> smtp_result.exists, accept_all |-> smtp_result.accept_all]

\* follower_count is <<n>>, or <<>> for None
FollowerPoints(followers) ==
    IF 5000 <= followers /\ followers <= 50000 THEN 15
    ELSE IF 1000 <= followers /\ followers <= 100000 THEN 10
    ELSE IF followers > 0 THEN 5
    ELSE 0

NoText == [truthy |-> FALSE, emails |-> <<>>, phone |-> None, links |-> <<>>,
           keyword |-> FALSE]

\* the comparison 5000 <= followers raises TypeError when followers is None
LeadScoreRaises(lead_data) == Get(lead_data, "follower_count", <<0>>) = <<>>

\* lines 536-562: the points of a lead whose follower_count is a number
LeadPoints(lead_data) ==
      (IF Truthy(GetText(lead_data, "email"))
       THEN 30 + (IF Get(lead_data, "email_source", "") = "hunter.io" THEN 5 ELSE 0)
       ELSE 0)
    + (IF Truthy(GetText(lead_data, "phone")) THEN 30 ELSE 0)
    + (IF Get(lead_data, "is_verified", FALSE) THEN 10 ELSE 0)
    + FollowerPoints(Get(lead_data, "follower_count", <<0>>)[1])
    + (IF Truthy(GetText(lead_data, "website")) THEN 10 ELSE 0)
    + (IF Get(lead_data, "bio", NoText).keyword THEN 5 ELSE 0)

\* a variant of _calculate_lead_score that returns the points as they are
UnclampedLeadScore(lead_data) == LeadPoints(lead_data)

\* _calculate_lead_score: line 564
_calculate_lead_score(lead_data) == Min(LeadPoints(lead_data), 100)

----------------------------------------------------------------------------
(* The text the model draws its inputs and the external answers from *)

N_bob == <<"B","o","b"," ","S","m","i","t","h">>
N_zoe == <<"Z","o","e_acute"," ","L","e","e">>
N_jane == <<"J","a","n","e"," ","D","o","e">>
N_single == <<"B","o","b">>
E_jane == <<"j","a","n","e",".","d","o","e","@","a","c","m","e",".","i","o">>
E_JANE == <<"J","a","n","e",".","D","o","e","@","A","c","m","e",".","i","o">>
E_info == <<"i","n","f","o","@","a","c","m","e",".","i","o">>
E_bobg == <<"b","o","b","@","g","m","a","i","l",".","c","o","m">>
E_BOBG == <<"B","o","b","@","G","m","a","i","l",".","c","o","m">>
E_bad == <<"h","i","@","e","x","a","m","p","l","e",".","c","o","m">>
E_BOBS == <<"B","o","b",".","S","m","i","t","h","@","a","c","m","e",".","i","o">>
W_acme == <<"h","t","t","p","s",":","/","/","a","c","m","e",".","i","o">>
W_link == <<"h","t","t","p","s",":","/","/","l","i","n","k","t","r",".","e","e","/","b","o","b">>
W_netflix == <<"h","t","t","p","s",":","/","/","n","e","t","f","l","i","x",".","c","o","m">>
K_link == <<"l","i","n","k","t","r",".","e","e","/","b","o","b",".">>
C_acme == <<"A","c","m","e"," ","C","o","r","p">>
PH_bio == <<"+","1"," ","5","5","5"," ","0","1","0","0">>
PH_site == <<"+","1"," ","5","5","5"," ","0","2","0","0">>
PH_link == <<"+","1"," ","5","5","5"," ","0","3","0","0">>
PH_old == <<"+","1"," ","5","5","5"," ","0","4","0","0">>

\* Bios, by what EMAIL_RE, the phone patterns, url_pattern and the keyword
\* list find in them; NoText is None or ''
B_mail == [truthy |-> TRUE, emails |-> <<E_bad, E_BOBG>>, phone |-> PH_bio,
           links |-> <<>>, keyword |-> TRUE]
B_link == [truthy |-> TRUE, emails |-> <<>>, phone |-> None,
           links |-> <<K_link>>, keyword |-> FALSE]
B_word == [truthy |-> TRUE, emails |-> <<>>, phone |-> None,
           links |-> <<>>, keyword |-> TRUE]

\* Fetched pages, by what EMAIL_RE and the phone patterns find in them;
\* NoPage is what _fetch_page returns as None (an error, or a status other
\* than 200)
NoPage == [ok |-> FALSE, emails |-> <<>>, phone |-> None]
P_home == [ok |-> TRUE, emails |-> <<E_bobg, E_JANE>>, phone |-> None]
P_contact == [ok |-> TRUE, emails |-> <<E_info, E_JANE>>, phone |-> PH_site]
P_link == [ok |-> TRUE, emails |-> <<E_bobg>>, phone |-> PH_link]

\* The pages the Fetcher may answer for a URL
PageUniverse(url) ==
    IF Contains(url, <<"l","i","n","k","t","r">>) THEN {NoPage, P_link}
    ELSE IF EndsWith(url, T_contact) THEN {NoPage, P_contact}
    ELSE IF EndsWith(url, T_contact_us) \/ EndsWith(url, T_about)
            \/ EndsWith(url, T_about_us) THEN {NoPage}
    ELSE {NoPage, P_home}

\* What the third-party finder may answer
HunterUniverse == {None, E_BOBS}

NoHeadline == [truthy |-> FALSE, names |-> <<>>]

\* A lead dict with every LeadProfile key
Lead(full_name, bio, website, company, followers, verified) ==
    [k \in {"full_name", "bio", "website", "company", "headline",
            "follower_count", "is_verified"} |->
        CASE k = "full_name" -> full_name
          [] k = "bio" -> bio
          [] k = "website" -> website
          [] k = "company" -> company
          [] k = "headline" -> NoHeadline
          [] k = "follower_count" -> followers
          [] k = "is_verified" -> verified]

----------------------------------------------------------------------------
(* The locals of one enrich_lead call *)

NoScrape == [pages |-> <<>>, email |-> None, phone |-> None, all_emails |-> <<>>,
             ret |-> ""]
NoBest == [email |-> None, score |-> -1, source |-> "", verified |-> FALSE,
           accept_all |-> FALSE]

\* before the call
Frame0(li) ==
    [pc |-> "idle", li |-> li, enriched |-> <<>>, email_candidates |-> <<>>,
     website_is_useful |-> FALSE, site_emails |-> <<>>, company_domain |-> None,
     work_domain |-> None, scrape |-> NoScrape, queue |-> <<>>, unique |-> <<>>,
     scored |-> <<>>, best |-> NoBest, log |-> <<>>]

\* pages_to_check of _deep_scrape_website (lines 211-220)
PagesToCheck(website) ==
    LET w == WithScheme(website)
        base == RStripChars(w, {"/"})
    IN <<w, base \o T_contact, base \o T_contact_us, base \o T_about, base \o T_about_us>>

NewScrape(website, ret) ==
    [pages |-> PagesToCheck(website), email |-> None, phone |-> None,
     all_emails |-> <<>>, ret |-> ret]

\* lines 32-47: the copy, the bio, website_is_useful
StartBlock(f, lead_data) ==
    LET bio_contacts == _extract_from_text(Get(lead_data, "bio", NoText))
        website == GetText(lead_data, "website")
        useful == WebsiteIsUseful(website)
    IN [f EXCEPT
          !.enriched = IF Truthy(bio_contacts.phone)
                       THEN Put(lead_data, "phone", bio_contacts.phone)
                       ELSE lead_data,
          !.email_candidates = IF Truthy(bio_contacts.email)
                               THEN <<<<bio_contacts.email, "bio">>>> ELSE <<>>,
          !.website_is_useful = useful,
          !.scrape = IF useful THEN NewScrape(website, "site") ELSE NoScrape,
          !.pc = IF useful THEN "scrape" ELSE "resolve"]

\* a variant of ScrapeIteration that asks again for a page that fails
ScrapeRetryOnFail(sc, page) ==
    LET valid == SelectSeq(page.emails, _is_valid_email)
        email == IF ~ Truthy(sc.email) /\ valid # <<>> THEN valid[1] ELSE sc.email
        phone == IF ~ Truthy(sc.phone) /\ Truthy(page.phone) THEN page.phone ELSE sc.phone
    IN IF ~ page.ok THEN sc
       ELSE [sc EXCEPT !.all_emails = sc.all_emails \o valid,
                       !.email = email, !.phone = phone,
                       !.pages = IF Truthy(email) /\ Truthy(phone)
                                 THEN <<>> ELSE Tail(sc.pages)]

\* a variant of ScrapeIteration that gives up at the first page that
\* fails
ScrapeAbortOnFail(sc, page) ==
    LET valid == SelectSeq(page.emails, _is_valid_email)
        email == IF ~ Truthy(sc.email) /\ valid # <<>> THEN valid[1] ELSE sc.email
        phone == IF ~ Truthy(sc.phone) /\ Truthy(page.phone) THEN page.phone ELSE sc.phone
    IN IF ~ page.ok THEN [sc EXCEPT !.pages = <<>>]
       ELSE [sc EXCEPT !.all_emails = sc.all_emails \o valid,
                       !.email = email, !.phone = phone,
                       !.pages = IF Truthy(email) /\ Truthy(phone)
                                 THEN <<>> ELSE Tail(sc.pages)]

\* one iteration of the loop of _deep_scrape_website (lines 224-244), the
\* Fetcher answering `page`
ScrapeIteration(sc, page) ==
    LET valid == SelectSeq(page.emails, _is_valid_email)
        email == IF ~ Truthy(sc.email) /\ valid # <<>> THEN valid[1] ELSE sc.email
        phone == IF ~ Truthy(sc.phone) /\ Truthy(page.phone) THEN page.phone ELSE sc.phone
    IN IF ~ page.ok THEN [sc EXCEPT !.pages = Tail(sc.pages)]
       ELSE [sc EXCEPT !.all_emails = sc.all_emails \o valid,
                       !.email = email, !.phone = phone,
                       !.pages = IF Truthy(email) /\ Truthy(phone)
                                 THEN <<>> ELSE Tail(sc.pages)]

\* lines 51-56 and 65-69: what the caller does with the result of
\* _deep_scrape_website, all_emails being list(set(all_emails)) in the
\* order the set iterates
AfterScrape(f, all_emails) ==
    LET sc == f.scrape IN
    [f EXCEPT
       !.site_emails = all_emails,
       !.email_candidates = IF Truthy(sc.email)
                            THEN Append(f.email_candidates, <<sc.email, "website">>)
                            ELSE f.email_candidates,
       !.enriched = IF Truthy(sc.phone) /\ ~ Truthy(GetText(f.enriched, "phone"))
                    THEN Put(f.enriched, "phone", sc.phone) ELSE f.enriched,
       !.scrape = NoScrape,
       !.pc = IF sc.ret = "site" THEN "resolve" ELSE "pattern"]

\* a variant of ResolveBlock that runs the Domain Resolver whatever the
\* website gave
ResolveAlways(f, lead_data) ==
    [f EXCEPT !.queue = DomainGuesses(lead_data),
              !.pc = IF DomainGuesses(lead_data) = <<>> THEN "pattern" ELSE "mx"]

\* lines 58-60 with lines 387-419: whether the Domain Resolver runs, and
\* the MX lookups it has to make
ResolveBlock(f, lead_data) ==
    IF ~ f.website_is_useful \/ f.site_emails = <<>>
    THEN LET guesses == DomainGuesses(lead_data) IN
         [f EXCEPT !.queue = guesses,
                   !.pc = IF guesses = <<>> THEN "pattern" ELSE "mx"]
    ELSE [f EXCEPT !.pc = "pattern"]

\* one MX lookup of _guess_domain (lines 444-449) and, on success, lines
\* 61-64
MxStep(f, resolves) ==
    LET domain == Head(f.queue)
        g == [f EXCEPT !.log = Append(f.log, <<"mx", domain, resolves>>)]
    IN IF resolves
       THEN [g EXCEPT !.company_domain = domain,
                      !.enriched = Put(f.enriched, "company_domain", domain),
                      !.queue = <<>>,
                      !.scrape = IF ~ f.website_is_useful
                                 THEN NewScrape(T_https \o domain, "company")
                                 ELSE NoScrape,
                      !.pc = IF ~ f.website_is_useful THEN "scrape" ELSE "pattern"]
       ELSE [g EXCEPT !.queue = Tail(f.queue),
                      !.pc = IF Tail(f.queue) = <<>> THEN "pattern" ELSE "mx"]

\* q[:n]
FirstN(q, n) == SubSeq(q, 1, Min(n, Len(q)))

\* line 71
WorkDomain(f, website) ==
    IF Truthy(f.company_domain) THEN f.company_domain
    ELSE IF f.website_is_useful THEN _extract_domain(website)
    ELSE None

\* lines 73-78: the candidates after the pattern prediction
PatternCandidates(f, full_name, work_domain) ==
    IF Truthy(full_name) /\ Truthy(work_domain)
    THEN (IF Truthy(_predict_email_from_pattern(full_name, T_https \o work_domain,
                                                f.site_emails))
          THEN Append(f.email_candidates,
                      <<_predict_email_from_pattern(full_name, T_https \o work_domain,
                                                    f.site_emails), "pattern">>)
          ELSE f.email_candidates)
    ELSE f.email_candidates

\* a variant of GuessQueue that probes every templated guess
GuessQueueAll(email_candidates, full_name, work_domain) ==
    IF email_candidates = <<>> /\ Truthy(full_name) /\ Truthy(work_domain)
    THEN _generate_email_candidates(full_name, T_https \o work_domain)
    ELSE <<>>

\* lines 80-82: the guesses step 5 is going to probe
GuessQueue(email_candidates, full_name, work_domain) ==
    IF email_candidates = <<>> /\ Truthy(full_name) /\ Truthy(work_domain)
    THEN FirstN(_generate_email_candidates(full_name, T_https \o work_domain), 5)
    ELSE <<>>

PatternResult(f, work_domain, email_candidates, queue) ==
    [f EXCEPT !.work_domain = work_domain,
              !.email_candidates = email_candidates,
              !.queue = queue,
              !.pc = IF queue = <<>> THEN "prehunter" ELSE "guess"]

PatternGuesses(f, full_name, work_domain, email_candidates) ==
    PatternResult(f, work_domain, email_candidates,
                  GuessQueue(email_candidates, full_name, work_domain))

PatternPredict(f, full_name, work_domain) ==
    PatternGuesses(f, full_name, work_domain,
                   PatternCandidates(f, full_name, work_domain))

\* lines 71-82: work_domain, the pattern candidate, and the guesses
PatternBlock(f, lead_data) ==
    PatternPredict(f, GetText(lead_data, "full_name"),
                   WorkDomain(f, GetText(lead_data, "website")))

\* one iteration of the loop of lines 82-86, _verify_email_smtp returning
\* smtp; the log keeps the address, whether it was reported as existing,
\* and whether that report came from a server that accepts every address
GuessStep(f, smtp) ==
    LET c == Head(f.queue)
        g == [f EXCEPT !.log = Append(f.log, <<"guess", c, smtp.exists,
                                               smtp.exists /\ smtp.accept_all>>)]
    IN IF smtp.raised THEN [g EXCEPT !.pc = "raised", !.queue = <<>>]
       ELSE IF smtp.exists /\ ~ smtp.accept_all
       THEN [g EXCEPT !.email_candidates = Append(f.email_candidates, <<c, "smtp_guess">>),
                      !.queue = <<>>, !.pc = "prehunter"]
       ELSE [g EXCEPT !.queue = Tail(f.queue),
                      !.pc = IF Tail(f.queue) = <<>> THEN "prehunter" ELSE "guess"]

\* lines 88-91 with lines 508-518: whether the finder is queried
HunterBlock(f, lead_data, key) ==
    LET website == GetText(lead_data, "website")
        full_name == GetText(lead_data, "full_name")
        asks == /\ key /\ Truthy(full_name) /\ Truthy(website)
                /\ Truthy(_extract_domain(website))
                /\ Len(SplitWS(full_name)) >= 2
    IN [f EXCEPT !.pc = IF asks THEN "hunter" ELSE "prelinks"]

\* lines 92-93, the finder answering hunter_email
HunterStep(f, hunter_email) ==
    [f EXCEPT !.email_candidates = IF Truthy(hunter_email)
                                   THEN Append(f.email_candidates, <<hunter_email, "hunter.io">>)
                                   ELSE f.email_candidates,
              !.log = Append(f.log, <<"hunter", hunter_email, Truthy(hunter_email)>>),
              !.pc = "prelinks"]

\* _extract_bio_links (lines 473-487) on the url_pattern matches of the bio
_extract_bio_links(bio) ==
    IF ~ bio.truthy THEN <<>>
    ELSE [i \in 1..Len(bio.links) |->
            RStripChars(IF ~ StartsWith(bio.links[i], T_http)
                        THEN T_https \o bio.links[i] ELSE bio.links[i],
                        {".", ",", ";", ":", "!", "?", ")"})]

\* lines 95-97
LinksBlock(f, lead_data) ==
    LET first3 == FirstN(_extract_bio_links(Get(lead_data, "bio", NoText)), 3)
    IN [f EXCEPT !.queue = first3,
                 !.pc = IF first3 = <<>> THEN "dedup" ELSE "links"]

\* a variant of LinkStep that takes the phone of a linked page whether or
\* not the record has one
LinkStepOverwrite(f, page) ==
    LET email == IF page.ok THEN FirstValid(page.emails) ELSE None
        phone == IF page.ok THEN page.phone ELSE None
    IN [f EXCEPT
          !.email_candidates = IF Truthy(email)
                               THEN Append(f.email_candidates, <<email, "bio_link">>)
                               ELSE f.email_candidates,
          !.enriched = IF Truthy(phone)
                       THEN Put(f.enriched, "phone", phone) ELSE f.enriched,
          !.log = Append(f.log, <<"fetch", Head(f.queue), page.ok>>),
          !.queue = Tail(f.queue),
          !.pc = IF Tail(f.queue) = <<>> THEN "dedup" ELSE "links"]

\* one iteration of the loop of lines 97-102, with _scrape_link_page (lines
\* 489-505) on the page the Fetcher answers
LinkStep(f, page) ==
    LET email == IF page.ok THEN FirstValid(page.emails) ELSE None
        phone == IF page.ok THEN page.phone ELSE None
    IN [f EXCEPT
          !.email_candidates = IF Truthy(email)
                               THEN Append(f.email_candidates, <<email, "bio_link">>)
                               ELSE f.email_candidates,
          !.enriched = IF Truthy(phone) /\ ~ Truthy(GetText(f.enriched, "phone"))
                       THEN Put(f.enriched, "phone", phone) ELSE f.enriched,
          !.log = Append(f.log, <<"fetch", Head(f.queue), page.ok>>),
          !.queue = Tail(f.queue),
          !.pc = IF Tail(f.queue) = <<>> THEN "dedup" ELSE "links"]

\* a variant of DedupKey that compares the addresses as they are written
ExactKey(email) == email

\* line 107: key = email.lower()
DedupKey(email) == Lower(email)

\* lines 105-110: the first candidate of each key
RECURSIVE Dedup(_, _)
Dedup(email_candidates, seen) ==
    IF email_candidates = <<>> THEN <<>>
    ELSE LET c == Head(email_candidates) IN
         IF DedupKey(c[1]) \notin seen
         THEN <<c>> \o Dedup(Tail(email_candidates), seen \cup {DedupKey(c[1])})
         ELSE Dedup(Tail(email_candidates), seen)

\* lines 104-113
DedupBlock(f) ==
    LET unique == Dedup(f.email_candidates, {}) IN
    [f EXCEPT !.unique = unique, !.queue = unique,
              !.pc = IF unique = <<>> THEN "publish" ELSE "score"]

\* a variant of KeepBest that lets a later candidate of equal score win
KeepLatest(best, scored) == IF scored.score >= best.score THEN scored ELSE best

\* lines 121-123: the running maximum
KeepBest(best, scored) == IF scored.score > best.score THEN scored ELSE best

\* one iteration of the loop of lines 115-123, _verify_email_smtp returning
\* smtp
ScoreStep(f, smtp) ==
    LET c == Head(f.queue)
        scored == ScoreWith(c[1], c[2], Len(f.site_emails), smtp)
        g == [f EXCEPT !.log = Append(f.log, <<"smtp", c[1], smtp.exists>>)]
    IN IF smtp.raised THEN [g EXCEPT !.pc = "raised", !.queue = <<>>]
       ELSE [g EXCEPT !.scored = Append(f.scored, scored),
                      !.best = KeepBest(f.best, scored),
                      !.queue = Tail(f.queue),
                      !.pc = IF Tail(f.queue) = <<>> THEN "publish" ELSE "score"]

\* lines 125-129
PublishBest(enriched, best) ==
    IF best = NoBest THEN enriched
    ELSE Put(Put(Put(Put(enriched, "email", best.email), "email_score", best.score),
                 "email_source", best.source), "email_verified", best.verified)

\* a variant of PublishPossible that lists the guesses whether or not an
\* email has been published
PossibleAlways(enriched, lead_data, work_domain) ==
    IF Truthy(GetText(lead_data, "full_name")) /\ Truthy(work_domain)
    THEN Put(enriched, "possible_emails",
             _generate_email_candidates(GetText(lead_data, "full_name"),
                                        T_https \o work_domain))
    ELSE enriched

\* lines 131-134
PublishPossible(enriched, lead_data, work_domain) ==
    IF /\ ~ Truthy(GetText(enriched, "email"))
       /\ Truthy(GetText(lead_data, "full_name"))
       /\ Truthy(work_domain)
    THEN Put(enriched, "possible_emails",
             _generate_email_candidates(GetText(lead_data, "full_name"),
                                        T_https \o work_domain))
    ELSE enriched

\* a variant of PublishBlock that scores the lead before the email is
\* published
ScoreBeforePublish(f, lead_data) ==
    LET e == PublishPossible(PublishBest(f.enriched, f.best), lead_data, f.work_domain) IN
    IF LeadScoreRaises(e) THEN [f EXCEPT !.enriched = e, !.pc = "raised"]
    ELSE [f EXCEPT !.enriched = Put(e, "lead_score", _calculate_lead_score(f.enriched)),
                   !.pc = "returned"]

\* lines 125-137: the record is completed and returned, unless
\* _calculate_lead_score raises
PublishBlock(f, lead_data) ==
    LET e == PublishPossible(PublishBest(f.enriched, f.best), lead_data, f.work_domain) IN
    IF LeadScoreRaises(e) THEN [f EXCEPT !.enriched = e, !.pc = "raised"]
    ELSE [f EXCEPT !.enriched = Put(e, "lead_score", _calculate_lead_score(e)),
                   !.pc = "returned"]

\* The code between two external calls runs without a step of its own: from
\* a position that needs no answer, go on to the next one that does
RECURSIVE Forward(_, _, _)
Forward(f, lead_data, key) ==
    CASE f.pc = "resolve"   -> Forward(ResolveBlock(f, lead_data), lead_data, key)
      [] f.pc = "pattern"   -> Forward(PatternBlock(f, lead_data), lead_data, key)
      [] f.pc = "prehunter" -> Forward(HunterBlock(f, lead_data, key), lead_data, key)
      [] f.pc = "prelinks"  -> Forward(LinksBlock(f, lead_data), lead_data, key)
      [] f.pc = "dedup"     -> Forward(DedupBlock(f), lead_data, key)
      [] f.pc = "publish"   -> PublishBlock(f, lead_data)
      [] OTHER -> f

----------------------------------------------------------------------------
(* External capabilities: Fetcher, DNS, SMTP, finder *)

\* The SMTP session of one _verify_email_smtp call, once MX has resolved:
\*   pre   - connect / HELO / MAIL FROM go through ("ok") or end in one of
\*           the exceptions of the except clause ("exc")
\*   rcpt1 - reply code to RCPT TO the address, or "exc"
\*   rcpt2 - reply code to RCPT TO the nonexistent address, or "exc"
\*   quit  - the reply to QUIT on leaving the with block is 221 ("ok"); any
\*           other reply makes SMTP.__exit__ raise SMTPResponseException
\* ("-": the session has ended before)
Codes == {"250", "550"}
Sessions ==
    {[pre |-> "exc", rcpt1 |-> "-", rcpt2 |-> "-", quit |-> "-"],
     [pre |-> "ok", rcpt1 |-> "exc", rcpt2 |-> "-", quit |-> "-"]}
    \cup {[pre |-> "ok", rcpt1 |-> c, rcpt2 |-> "exc", quit |-> "-"] : c \in Codes}
    \cup [pre : {"ok"}, rcpt1 : Codes, rcpt2 : Codes, quit : {"ok", "bad"}]
\* the sessions of the two-call specification: the address is accepted and
\* the nonexistent one is not, both are accepted, or both are refused
RepeatSessions ==
    {[pre |-> "ok", rcpt1 |-> "250", rcpt2 |-> "550", quit |-> "ok"],
     [pre |-> "ok", rcpt1 |-> "250", rcpt2 |-> "250", quit |-> "ok"],
     [pre |-> "ok", rcpt1 |-> "550", rcpt2 |-> "550", quit |-> "ok"]}
\* the model fixes the answer of every capability to each request (two
\* calls on the same lead, or a batch whose leads are compared)
FixedAnswers == mode \in {"repeat", "shared"}
\* the calls run on the workers of a pool
Pooled == mode \in {"bulk", "shared"}

SessionUniverse == IF FixedAnswers THEN RepeatSessions ELSE Sessions
NoSession == [pre |-> "-", rcpt1 |-> "-", rcpt2 |-> "-", quit |-> "-"]

NoAnswers == [fetch |-> <<>>, mx |-> <<>>, smtp |-> <<>>, fake |-> <<>>,
              hunter |-> <<>>, order |-> <<>>]

\* The answers a capability may give to a request: any of its universe,
\* but the answer it gave before when the model fixes the answer to each
\* request
Answer(given, request, universe) ==
    IF FixedAnswers /\ request \in DOMAIN given THEN {given[request]} ELSE universe

Remember(e, capability, request, a) ==
    IF FixedAnswers THEN [e EXCEPT ![capability] = Put(@, request, a)] ELSE e

EmailDomain(email) ==
    LET parts == Split(email, "@") IN IF Len(parts) = 2 THEN parts[2] ELSE None

----------------------------------------------------------------------------
(* enrich_lead, one step per external call *)

\* a variant of CallerObject in which the pipeline writes to the caller's
\* dict itself
SameObject(lead_data, enriched) == enriched

\* enriched = lead_data.copy() (line 32): the caller's dict is another
\* object than the one the pipeline writes to
CallerObject(lead_data, enriched) == lead_data

Finished(f) == f.pc \in {"returned", "raised"}

\* a variant of Land in which the list of candidates is one list of the
\* enricher, seen by every call that is under way
LandSharedCandidates(t, nf, e) ==
    /\ fr' = [u \in DOMAIN fr |->
                IF u = t THEN nf
                ELSE IF fr[u].pc \in {"idle", "returned", "raised"} THEN fr[u]
                ELSE [fr[u] EXCEPT !.email_candidates = nf.email_candidates]]
    /\ leads' = [leads EXCEPT ![nf.li] = CallerObject(leads[nf.li], nf.enriched)]
    /\ env' = e
    /\ futures' = IF Pooled
                  THEN [futures EXCEPT ![t] = IF Finished(nf) THEN "done" ELSE "running"]
                  ELSE futures
    /\ UNCHANGED <<submitted, api_key, mode, max_workers, results, bpc, call>>

\* the frame after a step, the caller's dict and the answers given so far
Land(t, nf, e) ==
    /\ fr' = [fr EXCEPT ![t] = nf]
    /\ leads' = [leads EXCEPT ![nf.li] = CallerObject(leads[nf.li], nf.enriched)]
    /\ env' = e
    /\ futures' = IF Pooled
                  THEN [futures EXCEPT ![t] = IF Finished(nf) THEN "done" ELSE "running"]
                  ELSE futures
    /\ UNCHANGED <<submitted, api_key, mode, max_workers, results, bpc, call>>

\* a step of call t: the external call has answered (frame nf), and the
\* code runs on to the next external call, or to the end
Commit(t, nf, e) == Land(t, Forward(nf, leads[fr[t].li], api_key), e)

Running == {i \in DOMAIN futures : futures[i] = "running"}

\* a variant of CanStart whose pool starts a queued item whether or not a
\* worker is free
CanStartUnbounded(t) ==
    /\ fr[t].pc = "idle"
    /\ mode = "repeat" => (t = 1 \/ Finished(fr[1]))
    /\ Pooled =>
          /\ futures[t] = "pending"
          /\ \A i \in 1..(t - 1) : futures[i] # "pending"

\* a call may begin: at once (single), after the first call has ended
\* (repeat), or when a worker of the pool takes the oldest queued item (bulk)
CanStart(t) ==
    /\ fr[t].pc = "idle"
    /\ mode = "repeat" => (t = 1 \/ Finished(fr[1]))
    /\ Pooled =>
          /\ futures[t] = "pending"
          /\ \A i \in 1..(t - 1) : futures[i] # "pending"
          /\ Cardinality(Running) < max_workers

Start(t) ==
    /\ CanStart(t)
    /\ LET lead_data == leads[fr[t].li] IN
       Commit(t, StartBlock(fr[t], lead_data), env)

Fetch(t) ==
    /\ fr[t].pc = "scrape"
    /\ LET f == fr[t]
           url == Head(f.scrape.pages)
       IN \E page \in Answer(env.fetch, url, PageUniverse(url)) :
            LET sc == ScrapeIteration(f.scrape, page) IN
            Commit(t, [f EXCEPT !.scrape = sc,
                                !.log = Append(f.log, <<"fetch", url, page.ok>>),
                                !.pc = IF sc.pages = <<>> THEN "scraped" ELSE "scrape"],
                   Remember(env, "fetch", url, page))

\* list(set(all_emails)) (line 246): the distinct addresses, in the order a
\* set of str iterates, which depends on the hash seed of the interpreter
SetOrders(all_emails) == Perms(Range(all_emails))

\* within one run of the interpreter (the workers of one pool) the hash of
\* a str is fixed, so the set built from the same list iterates in the
\* same order each time
OrdersInRun(given, all_emails) ==
    IF mode = "shared" /\ all_emails \in DOMAIN given THEN {given[all_emails]}
    ELSE SetOrders(all_emails)

ScrapeReturn(t) ==
    /\ fr[t].pc = "scraped"
    /\ LET f == fr[t]
       IN \E all_emails \in OrdersInRun(env.order, f.scrape.all_emails) :
            Commit(t, AfterScrape(f, all_emails),
                   IF mode = "shared"
                   THEN [env EXCEPT !.order = Put(@, f.scrape.all_emails, all_emails)]
                   ELSE env)

GuessMx(t) ==
    /\ fr[t].pc = "mx"
    /\ LET f == fr[t]
           domain == Head(f.queue)
       IN \E resolves \in Answer(env.mx, domain, BOOLEAN) :
            Commit(t, MxStep(f, resolves),
                   Remember(env, "mx", domain, resolves))

\* what the caller of _verify_email_smtp does with its result: step 5
\* (lines 83-86) or the scorer (lines 115-123)
ProbeStep(f, smtp) ==
    IF f.pc = "guess" THEN GuessStep(f, smtp) ELSE ScoreStep(f, smtp)

\* a call of _verify_email_smtp(email): the MX lookup and the session
\* answer, the caller going on with the result. When the model fixes
\* the answer to each request, RCPT TO the nonexistent address of a domain
\* (line 327) is one request, whatever address the session is about
Probe(t, email) ==
    LET f == fr[t]
        domain == EmailDomain(email)
    IN \E m \in Answer(env.mx, domain, BOOLEAN) :
       \E s \in (IF m THEN Answer(env.smtp, email, SessionUniverse) ELSE {NoSession}) :
          /\ m => s.rcpt2 \in Answer(env.fake, domain, {s.rcpt2})
          /\ LET a == [mx |-> m, pre |-> s.pre, rcpt1 |-> s.rcpt1, rcpt2 |-> s.rcpt2,
                       quit |-> s.quit]
                 e1 == Remember(env, "mx", domain, m)
                 e2 == IF m THEN Remember(Remember(e1, "smtp", email, s),
                                          "fake", domain, s.rcpt2)
                      ELSE e1
             IN Commit(t, ProbeStep(f, _verify_email_smtp(email, a)), e2)

SmtpGuess(t) ==
    /\ fr[t].pc = "guess"
    /\ Probe(t, Head(fr[t].queue))

Hunter(t) ==
    /\ fr[t].pc = "hunter"
    /\ LET f == fr[t]
           lead_data == leads[f.li]
           request == <<GetText(lead_data, "full_name"), GetText(lead_data, "website")>>
       IN \E hunter_email \in Answer(env.hunter, request, HunterUniverse) :
            Commit(t, HunterStep(f, hunter_email),
                   Remember(env, "hunter", request, hunter_email))

LinkFetch(t) ==
    /\ fr[t].pc = "links"
    /\ LET f == fr[t]
           url == Head(f.queue)
       IN \E page \in Answer(env.fetch, url, PageUniverse(url)) :
            Commit(t, LinkStep(f, page),
                   Remember(env, "fetch", url, page))

ScoreOne(t) ==
    /\ fr[t].pc = "score"
    /\ Probe(t, Head(fr[t].queue)[1])

----------------------------------------------------------------------------
(* enrich_bulk *)

\* the dict comprehension of line 570: one more lead is submitted
Submit ==
    /\ bpc = "submit"
    /\ LET i == CHOOSE j \in DOMAIN futures :
                    futures[j] = "new" /\ \A k \in 1..(j - 1) : futures[k] # "new"
       IN /\ futures' = [futures EXCEPT ![i] = "pending"]
          /\ bpc' = IF i = Len(leads) THEN "collect" ELSE "submit"
    /\ UNCHANGED <<leads, submitted, api_key, fr, env, mode, max_workers, results, call>>

\* lines 573-577: what is appended for a finished future
Collected(f, lead_data) == IF f.pc = "returned" THEN f.enriched ELSE lead_data

\* a variant of Collect that appends nothing for a future that failed
CollectReturned(i) ==
    /\ bpc = "collect"
    /\ futures[i] = "done"
    /\ results' = IF fr[i].pc = "returned"
                  THEN Append(results, [of |-> i, rec |-> fr[i].enriched])
                  ELSE results
    /\ futures' = [futures EXCEPT ![i] = "collected"]
    /\ UNCHANGED <<leads, submitted, api_key, fr, env, mode, max_workers, bpc, call>>

\* one iteration of the as_completed loop (lines 572-577)
Collect(i) ==
    /\ bpc = "collect"
    /\ futures[i] = "done"
    /\ results' = Append(results, [of |-> i, rec |-> Collected(fr[i], leads[i])])
    /\ futures' = [futures EXCEPT ![i] = "collected"]
    /\ UNCHANGED <<leads, submitted, api_key, fr, env, mode, max_workers, bpc, call>>

\* lines 572 and 579: as_completed is exhausted once it has yielded every
\* future; the with block ends and the list is returned
Return ==
    /\ bpc = "collect"
    /\ \A i \in DOMAIN futures : futures[i] = "collected"
    /\ bpc' = "returned"
    /\ UNCHANGED <<leads, submitted, api_key, fr, env, mode, max_workers, futures,
                   results, call>>

----------------------------------------------------------------------------
(* Initial states and specifications *)

\* The leads of the single-call specification: every combination of name,
\* bio, website, company, audience and earlier contact data that has at
\* most MaxSignals sources of contact data (a bio with an address or a
\* link, a business website, a company name, a finder key, an email and a
\* phone the scraper already found), a lead that has nothing but a
\* website whose host ends in the letters of a listed domain, and a lead
\* with a one-word name and a business website
MaxSignals == 2

Audiences == {<<None, FALSE>>, <<<<5000>>, TRUE>>}

\* the scrapers' own 'email' and 'phone' keys (e.g. instagram.py 257-258)
WithPrior(l, prior) ==
    IF prior THEN Put(Put(l, "email", E_info), "phone", PH_old) ELSE l

Signals(l, key) ==
    (IF l["bio"].emails # <<>> \/ l["bio"].links # <<>> THEN 1 ELSE 0)
    + (IF WebsiteIsUseful(l["website"]) THEN 1 ELSE 0)
    + (IF Truthy(l["company"]) THEN 1 ELSE 0)
    + (IF Has(l, "email") THEN 1 ELSE 0)
    + (IF key THEN 1 ELSE 0)

SingleLeads ==
    {WithPrior(Lead(n, b, w, c, a[1], a[2]), prior) :
        n \in {None, N_bob, N_zoe}, b \in {NoText, B_word, B_mail, B_link},
        w \in {None, W_acme, W_link}, c \in {None, C_acme}, a \in Audiences,
        prior \in BOOLEAN}
    \cup {Lead(None, NoText, W_netflix, None, <<0>>, FALSE),
          Lead(N_single, NoText, W_acme, None, <<0>>, FALSE)}

NoCall == [pc |-> "off"]
NoBulk ==
    /\ max_workers = 0 /\ futures = <<>> /\ results = <<>> /\ bpc = "off"

InitSingle ==
    /\ mode = "single"
    /\ api_key \in BOOLEAN
    /\ \E l \in SingleLeads : Signals(l, api_key) <= MaxSignals /\ leads = <<l>>
    /\ submitted = leads
    /\ fr = [t \in {1} |-> Frame0(1)]
    /\ env = NoAnswers
    /\ NoBulk
    /\ call = NoCall

Next ==
    \/ \E t \in DOMAIN fr : Start(t)
    \/ \E t \in DOMAIN fr : Fetch(t)
    \/ \E t \in DOMAIN fr : ScrapeReturn(t)
    \/ \E t \in DOMAIN fr : GuessMx(t)
    \/ \E t \in DOMAIN fr : SmtpGuess(t)
    \/ \E t \in DOMAIN fr : Hunter(t)
    \/ \E t \in DOMAIN fr : LinkFetch(t)
    \/ \E t \in DOMAIN fr : ScoreOne(t)

\* one call of enrich_lead
Spec == InitSingle /\ [][Next]_vars

\* Two calls of enrich_lead on the same lead, one after the other (in two
\* runs of the program: each call has its own iteration order of a set of
\* str), every capability giving the same answer to the same request
RepeatLeads ==
    {Lead(N_bob, NoText, W_acme, None, <<0>>, FALSE),
     Lead(N_bob, B_link, None, None, <<0>>, FALSE),
     Lead(N_bob, NoText, None, C_acme, <<0>>, FALSE)}

InitRepeat ==
    /\ mode = "repeat"
    /\ api_key \in BOOLEAN
    /\ \E l \in RepeatLeads : Signals(l, api_key) <= MaxSignals /\ leads = <<l>>
    /\ submitted = leads
    /\ fr = [t \in {1, 2} |-> Frame0(1)]
    /\ env = NoAnswers
    /\ NoBulk
    /\ call = NoCall

SpecRepeat == InitRepeat /\ [][Next]_vars

\* enrich_bulk on up to MaxLeads leads with up to MaxWorkers workers; the
\* leads have no website, company or link, so that their pipelines make no
\* other external call than the SMTP probes of the scorer
MaxLeads == 2
MaxWorkers == 2

BulkLeads ==
    {Lead(None, NoText, None, None, <<0>>, FALSE)}
    \cup {Lead(N_bob, B_mail, None, None, fo, FALSE) : fo \in {None, <<5000>>}}

InitBulk ==
    /\ mode = "bulk"
    /\ api_key = FALSE
    /\ \E n \in 0..MaxLeads : leads \in [1..n -> BulkLeads]
    /\ submitted = leads
    /\ fr = [t \in DOMAIN leads |-> Frame0(t)]
    /\ env = NoAnswers
    /\ max_workers \in 1..MaxWorkers
    /\ futures = [i \in DOMAIN leads |-> "new"]
    /\ results = <<>>
    /\ bpc = IF leads = <<>> THEN "collect" ELSE "submit"
    /\ call = NoCall

NextBulk ==
    \/ Submit
    \/ \E t \in DOMAIN fr : Start(t)
    \/ \E t \in DOMAIN fr : ScoreOne(t)
    \/ \E i \in DOMAIN futures : Collect(i)
    \/ Return

SpecBulk == InitBulk /\ [][NextBulk]_vars

\* _score_and_verify_email alone: one candidate of every source, site-email
\* count up to MaxSiteEmails and existence flag, scored once with the
\* verifier reporting a catch-all server and once without
MaxSiteEmails == 4

Sources == {"bio", "website", "contact_page", "hunter.io", "smtp_guess",
            "bio_link", "pattern", "other"}

\* the scores _verify_email_smtp gives (line 307 and lines 325-334)
VerifierScores == {30, 50, 70, 90, 110}

InitScore ==
    /\ mode = "score"
    /\ api_key = FALSE
    /\ leads = <<>> /\ submitted = <<>> /\ fr = <<>>
    /\ env = NoAnswers
    /\ NoBulk
    /\ \E source \in Sources, n \in 0..MaxSiteEmails, exists \in BOOLEAN,
          score \in VerifierScores :
          call = [pc |-> "score", email |-> E_jane, source |-> source,
                  site_emails_count |-> n, exists |-> exists, score |-> score,
                  flagged |-> <<>>, plain |-> <<>>]

\* a call of _score_and_verify_email, _verify_email_smtp returning the
\* existence flag and the score of the case, and accept_all
ScoreCandidate(accept_all) ==
    /\ call.pc = "score"
    /\ (IF accept_all THEN call.flagged ELSE call.plain) = <<>>
    /\ LET scored == ScoreWith(call.email, call.source, call.site_emails_count,
                               [raised |-> FALSE, exists |-> call.exists,
                                accept_all |-> accept_all, score |-> call.score])
       IN call' = IF accept_all THEN [call EXCEPT !.flagged = <<scored>>]
                  ELSE [call EXCEPT !.plain = <<scored>>]
    /\ UNCHANGED <<leads, submitted, api_key, fr, env, mode, max_workers, futures,
                   results, bpc>>

NextScore == \E accept_all \in BOOLEAN : ScoreCandidate(accept_all)

SpecScore == InitScore /\ [][NextScore]_vars

\* _verify_email_smtp alone: one address (well formed, with no domain, with
\* two "@", not ASCII) verified once, the MX lookup failing or the session
\* going any of the ways of Sessions
E_zoe == <<"z","o","e_acute",".","l","e","e","@","a","c","m","e",".","i","o">>
E_nodomain == <<"b","o","b","@">>
E_twoat == <<"b","o","b","@","a","@","a","c","m","e",".","i","o">>

VerifyEmails == {E_jane, E_info, E_bobg, E_BOBS, E_zoe, E_nodomain, E_twoat}

MailAnswers ==
    {[mx |-> FALSE, pre |-> "-", rcpt1 |-> "-", rcpt2 |-> "-", quit |-> "-"]}
    \cup {[mx |-> TRUE, pre |-> s.pre, rcpt1 |-> s.rcpt1, rcpt2 |-> s.rcpt2,
           quit |-> s.quit] : s \in Sessions}

InitVerify ==
    /\ mode = "verify"
    /\ api_key = FALSE
    /\ leads = <<>> /\ submitted = <<>> /\ fr = <<>>
    /\ env = NoAnswers
    /\ NoBulk
    /\ \E email \in VerifyEmails, a \in MailAnswers :
          call = [pc |-> "verify", email |-> email, a |-> a, result |-> <<>>]

\* a call of _verify_email_smtp
Verify ==
    /\ call.pc = "verify"
    /\ call' = [call EXCEPT !.pc = "verified",
                            !.result = <<_verify_email_smtp(call.email, call.a)>>]
    /\ UNCHANGED <<leads, submitted, api_key, fr, env, mode, max_workers, futures,
                   results, bpc>>

NextVerify == Verify

SpecVerify == InitVerify /\ [][NextVerify]_vars

\* The Pattern Detector alone: _detect_pattern on every local part of up to
\* MaxLocal characters over LocalAlphabet, and step 4 of the pipeline
\* (lines 73-78) for a name, the work domain acme.io and a list of up to
\* MaxKnown known addresses
MaxLocal == 4
MaxKnown == 2

LocalAlphabet == {"a", "b", ".", "1"}
E_bob == <<"b","o","b","@","a","c","m","e",".","i","o">>
E_janedot == <<"j","a","n","e",".","@","a","c","m","e",".","i","o">>

PatternNames == {N_bob, N_jane, N_single}
KnownEmails == {E_jane, E_info, E_bobg, E_BOBS, E_bob, E_janedot}

SeqsUpTo(S, n) == UNION {[1..k -> S] : k \in 0..n}

InitPattern ==
    /\ mode = "pattern"
    /\ api_key = FALSE
    /\ leads = <<>> /\ submitted = <<>> /\ fr = <<>>
    /\ env = NoAnswers
    /\ NoBulk
    /\ \/ \E local_part \in SeqsUpTo(LocalAlphabet, MaxLocal) :
             call = [pc |-> "detect", local_part |-> local_part, result |-> <<>>]
       \/ \E full_name \in PatternNames, site_emails \in SeqsUpTo(KnownEmails, MaxKnown) :
             call = [pc |-> "predict", full_name |-> full_name,
                     site_emails |-> site_emails, result |-> <<>>]

\* a call of _detect_pattern
Detect ==
    /\ call.pc = "detect"
    /\ call' = [call EXCEPT !.pc = "detected",
                            !.result = <<_detect_pattern(call.local_part)>>]
    /\ UNCHANGED <<leads, submitted, api_key, fr, env, mode, max_workers, futures,
                   results, bpc>>

\* lines 71-78 for a lead whose usable website https://acme.io gave
\* site_emails and no candidate: the candidates after step 4
Predict ==
    /\ call.pc = "predict"
    /\ LET f == [Frame0(1) EXCEPT !.website_is_useful = TRUE,
                                  !.site_emails = call.site_emails]
       IN call' = [call EXCEPT !.pc = "predicted",
                               !.result = PatternCandidates(f, call.full_name,
                                                            WorkDomain(f, W_acme))]
    /\ UNCHANGED <<leads, submitted, api_key, fr, env, mode, max_workers, futures,
                   results, bpc>>

NextPattern == Detect \/ Predict

SpecPattern == InitPattern /\ [][NextPattern]_vars

----------------------------------------------------------------------------
(* The contract of enrich_lead and enrich_bulk *)

Returned(f) == f.pc = "returned"

\* C1: enrich_lead never raises: whatever the lead record holds and
\* however the Fetcher, DNS, SMTP and the finder answer or fail, the call
\* ends by returning a record.
C1_NeverRaises == \A t \in DOMAIN fr : fr[t].pc # "raised"

\* C2: when enrich_bulk has returned, it has returned as many records as
\* leads were submitted, and every submitted lead accounts for exactly one
\* of them, in whatever order the workers finished.
C2_OneRecordPerLead ==
    bpc = "returned" =>
        /\ Len(results) = Len(submitted)
        /\ \A i \in DOMAIN submitted :
              Cardinality({k \in DOMAIN results : results[k].of = i}) = 1

\* enrich_bulk has returned two records, the second lead's first, one of
\* the pipelines having raised
C2_Witness ==
    /\ bpc = "returned"
    /\ Len(results) = 2
    /\ results[1].of = 2
    /\ \E i \in DOMAIN fr : fr[i].pc = "raised"

\* C3: when enrich_bulk has returned, the record of a lead whose pipeline
\* raised is the submitted record, field for field, and the record of
\* every other lead is the one its own enrich_lead call returned.
C3_FailedLeadAsSubmitted ==
    bpc = "returned" =>
        \A k \in DOMAIN results :
            LET i == results[k].of IN
            IF fr[i].pc = "raised"
            THEN results[k].rec = submitted[i]
            ELSE /\ Returned(fr[i])
                 /\ results[k].rec = fr[i].enriched
                 /\ Has(results[k].rec, "lead_score")

\* enrich_bulk has returned; one pipeline raised after it had found an
\* email and a phone, another one returned
C3_Witness ==
    /\ bpc = "returned"
    /\ \E i \in DOMAIN fr :
          /\ fr[i].pc = "raised"
          /\ Has(fr[i].enriched, "email") /\ Has(fr[i].enriched, "phone")
          /\ ~ Has(submitted[i], "email")
    /\ \E j \in DOMAIN fr : Returned(fr[j]) /\ Has(fr[j].enriched, "email")

\* C4: in every record enrich_lead returns, lead_score is within 0..100,
\* and so are email_score, when an email is published, and the score of
\* every candidate that was scored.
C4_ScoreBounds ==
    \A t \in DOMAIN fr :
        Returned(fr[t]) =>
            LET e == fr[t].enriched IN
            /\ Has(e, "lead_score")
            /\ 0 <= e["lead_score"] /\ e["lead_score"] <= 100
            /\ Has(e, "email_score") =>
                  (0 <= e["email_score"] /\ e["email_score"] <= 100)
            /\ \A k \in DOMAIN fr[t].scored :
                  0 <= fr[t].scored[k].score /\ fr[t].scored[k].score <= 100

\* a returned record whose points add up to more than 100, with a
\* published email
C4_Witness ==
    \E t \in DOMAIN fr :
        /\ Returned(fr[t])
        /\ LeadPoints(fr[t].enriched) > 100
        /\ fr[t].enriched["lead_score"] = 100
        /\ Has(fr[t].enriched, "email_score")

\* C5: no record enrich_lead returns has both an email and a non-empty
\* possible_emails.
C5_EmailOrPossibleEmails ==
    \A t \in DOMAIN fr :
        Returned(fr[t]) =>
            ~ (/\ Truthy(GetText(fr[t].enriched, "email"))
               /\ Get(fr[t].enriched, "possible_emails", <<>>) # <<>>)

\* a returned record with an email, for a lead with a name and a work
\* domain (the guesses could have been listed), and one with guesses
C5_Witness ==
    \E t \in DOMAIN fr :
        /\ Returned(fr[t])
        /\ Truthy(GetText(leads[fr[t].li], "full_name"))
        /\ Truthy(fr[t].work_domain)
        /\ Truthy(GetText(fr[t].enriched, "email"))
        /\ fr[t].scored # <<>>
        /\ ~ Has(fr[t].enriched, "possible_emails")

\* the place of a source in the order the pipeline generates candidates
SourceRank(source) ==
    CASE source = "bio" -> 1
      [] source = "website" -> 2
      [] source = "pattern" -> 3
      [] source = "smtp_guess" -> 4
      [] source = "hunter.io" -> 5
      [] source = "bio_link" -> 6
      [] OTHER -> 7

\* the first of the candidates that have the highest score
FirstBest(scored) ==
    CHOOSE k \in DOMAIN scored :
        /\ \A j \in DOMAIN scored : scored[j].score <= scored[k].score
        /\ \A j \in 1..(k - 1) : scored[j].score < scored[k].score

\* C6: the record enrich_lead returns publishes, of the candidates that
\* are left after the case-insensitive deduplication, taken in the order
\* the pipeline generated them (bio, website, pattern, smtp_guess, hunter,
\* bio_link), the first one that has the maximum score, with its score,
\* source and verification flag; with no candidate it publishes no email.
C6_FirstBestPublished ==
    \A t \in DOMAIN fr :
        Returned(fr[t]) =>
            LET f == fr[t]
                e == fr[t].enriched
            IN /\ Len(f.scored) = Len(f.unique)
               /\ \A j \in DOMAIN f.unique :
                     /\ f.scored[j].email = f.unique[j][1]
                     /\ f.scored[j].source = f.unique[j][2]
               /\ \A i, j \in DOMAIN f.unique :
                     i < j => /\ SourceRank(f.unique[i][2]) <= SourceRank(f.unique[j][2])
                              /\ Lower(f.unique[i][1]) # Lower(f.unique[j][1])
               /\ IF f.scored = <<>>
                  THEN /\ GetText(e, "email") = GetText(submitted[f.li], "email")
                       /\ ~ Has(e, "email_score")
                  ELSE /\ e["email"] = f.scored[FirstBest(f.scored)].email
                       /\ e["email_score"] = f.scored[FirstBest(f.scored)].score
                       /\ e["email_source"] = f.scored[FirstBest(f.scored)].source
                       /\ e["email_verified"] = f.scored[FirstBest(f.scored)].verified

\* a returned record for which two candidates had the maximum score
C6_Witness ==
    \E t \in DOMAIN fr :
        /\ Returned(fr[t])
        /\ \E i, j \in DOMAIN fr[t].scored :
              /\ i < j
              /\ i = FirstBest(fr[t].scored)
              /\ fr[t].scored[j].score = fr[t].scored[i].score
              /\ fr[t].enriched["email"] = fr[t].scored[i].email
              /\ fr[t].scored[j].email # fr[t].scored[i].email

\* C7: once the candidates are deduplicated, every address that was a
\* candidate, in whatever letter casing and however often, has exactly one
\* survivor, which is its first candidate with that candidate's source;
\* the survivors keep their order, and deduplicating them again changes
\* nothing.
C7_DedupKeepsFirst ==
    \A t \in DOMAIN fr :
        fr[t].pc \in {"score", "returned"} =>
            LET c == fr[t].email_candidates
                u == fr[t].unique
            IN /\ \A i \in DOMAIN c :
                     Cardinality({j \in DOMAIN u : Lower(u[j][1]) = Lower(c[i][1])}) = 1
               /\ \A j \in DOMAIN u :
                     \E i \in DOMAIN c :
                        /\ c[i] = u[j]
                        /\ \A h \in 1..(i - 1) : Lower(c[h][1]) # Lower(u[j][1])
               /\ \A j, k \in DOMAIN u :
                     j < k => \E i, h \in DOMAIN c : i < h /\ c[i] = u[j] /\ c[h] = u[k]
               /\ Dedup(u, {}) = u

\* the candidates held the same address twice in different letter casing
C7_Witness ==
    \E t \in DOMAIN fr :
        /\ fr[t].pc \in {"score", "returned"}
        /\ \E i, j \in DOMAIN fr[t].email_candidates :
              /\ i < j
              /\ fr[t].email_candidates[i][1] # fr[t].email_candidates[j][1]
              /\ Lower(fr[t].email_candidates[i][1]) = Lower(fr[t].email_candidates[j][1])
              /\ fr[t].email_candidates[i] \in Range(fr[t].unique)
              /\ fr[t].email_candidates[j] \notin Range(fr[t].unique)

\* C8: for every source, site-email count and existence flag, the score
\* computed with accept_all true is strictly lower than the score computed
\* with accept_all false.
C8_CatchAllScoresLower ==
    (call.pc = "score" /\ call.flagged # <<>> /\ call.plain # <<>>) =>
        call.flagged[1].score < call.plain[1].score

\* a candidate that scores 100 without the flag, where the clamp starts
C8_Witness ==
    /\ call.pc = "score"
    /\ call.flagged # <<>> /\ call.plain # <<>>
    /\ call.exists
    /\ call.plain[1].score = 100
    /\ call.flagged[1].score = 80

\* C9: two calls of enrich_lead on the same lead, every capability giving
\* the same answer to the same request, end alike and return the same
\* record.
C9_RepeatedCallsAgree ==
    (\A t \in DOMAIN fr : Finished(fr[t])) =>
        \A t, u \in DOMAIN fr :
            /\ fr[t].pc = fr[u].pc
            /\ fr[t].enriched = fr[u].enriched

\* C10: a record enrich_lead returns has a company_domain only if the
\* Domain Resolver found an MX record for it, it being one of the domains
\* the resolver guesses from the company names of the lead, and only if
\* the website was not usable or yielded no email.
C10_CompanyDomainResolved ==
    \A t \in DOMAIN fr :
        (Returned(fr[t]) /\ Has(fr[t].enriched, "company_domain")) =>
            /\ <<"mx", fr[t].enriched["company_domain"], TRUE>> \in Range(fr[t].log)
            /\ fr[t].enriched["company_domain"] \in Range(DomainGuesses(submitted[fr[t].li]))
            /\ ~ (fr[t].website_is_useful /\ fr[t].site_emails # <<>>)

\* a returned record with a company_domain, for a lead whose usable
\* website yielded no email
C10_Witness ==
    \E t \in DOMAIN fr :
        /\ Returned(fr[t])
        /\ Has(fr[t].enriched, "company_domain")
        /\ fr[t].website_is_useful
        /\ fr[t].site_emails = <<>>

\* the keys of a LeadProfile
LeadProfileFields == {"full_name", "bio", "website", "company", "headline",
                      "follower_count", "is_verified"}

\* C11: enrich_lead leaves the submitted lead record as it was, while it
\* runs, when it has returned and when it has raised; and the record it
\* returns has every LeadProfile field with the value the submitted record
\* has.
C11_InputUnchanged ==
    /\ leads = submitted
    /\ \A t \in DOMAIN fr :
          Returned(fr[t]) =>
              \A k \in LeadProfileFields :
                  /\ Has(fr[t].enriched, k)
                  /\ fr[t].enriched[k] = submitted[fr[t].li][k]

\* a call has returned a record with an email, a phone and a lead_score the
\* submitted record does not have, and the submitted record is as it was
C11_Witness ==
    \E t \in DOMAIN fr :
        /\ Returned(fr[t])
        /\ Has(fr[t].enriched, "email") /\ Has(fr[t].enriched, "phone")
        /\ Has(fr[t].enriched, "lead_score")
        /\ ~ Has(submitted[fr[t].li], "email")
        /\ leads[fr[t].li] = submitted[fr[t].li]
        /\ leads[fr[t].li] # fr[t].enriched

\* the SMTP phase of a verified call went as far as the second RCPT TO,
\* both RCPT TO being answered 250
BothAccepted ==
    /\ call.pc = "verified"
    /\ Len(Split(call.email, "@")) = 2 /\ Split(call.email, "@")[2] # <<>>
    /\ IsAscii(call.email)
    /\ call.a.mx /\ call.a.pre = "ok"
    /\ call.a.rcpt1 = "250" /\ call.a.rcpt2 = "250"

\* C12 as stated: when MX resolves and both RCPT TO are answered 250,
\* _verify_email_smtp reports accept_all and a score of at most 30.
C12_CatchAllAtMost30 ==
    BothAccepted =>
        /\ call.result[1].accept_all
        /\ call.result[1].score <= 30

\* C12, amended: when MX resolves and both RCPT TO are answered 250,
\* _verify_email_smtp reports exists and accept_all, and a score that is
\* never below 30: it is 50 (10 + 80 - 40) when the session closes
\* normally, and 70 when closing the session ends in an exception.
C12_CatchAllFloor30 ==
    BothAccepted =>
        /\ ~ call.result[1].raised
        /\ call.result[1].exists
        /\ call.result[1].accept_all
        /\ call.result[1].score >= 30
        /\ call.result[1].score = (IF call.a.quit = "ok" THEN 50 ELSE 70)

\* both RCPT TO were answered 250, the session closed normally, and the
\* call returned accept_all with score 50
C12_Witness ==
    /\ BothAccepted
    /\ call.a.quit = "ok"
    /\ call.result[1].accept_all
    /\ call.result[1].score = 50

\* the MX lookups the Domain Resolver of a call has made, in order
MxLookups(f) == SelectSeq(f.log, LAMBDA entry : entry[1] = "mx")

\* C13 as stated: for a lead with company "Acme Corp" and no headline the
\* Domain Resolver looks up acmecorp.com, acmecorp.io, acmecorp.co, in
\* this order.
C13_AcmecorpGuesses ==
    \A t \in DOMAIN fr :
        LET slug == <<"a","c","m","e","c","o","r","p">>
            expected == <<slug \o T_com, slug \o T_io, slug \o T_co>>
            lookups == MxLookups(fr[t])
        IN (/\ submitted[fr[t].li]["company"] = C_acme
            /\ ~ submitted[fr[t].li]["headline"].truthy) =>
              /\ Len(lookups) <= 3
              /\ \A i \in DOMAIN lookups : lookups[i][2] = expected[i]

\* C13, amended: for a lead with company "Acme Corp" and no headline the
\* Domain Resolver, when it runs, looks up acme.com, acme.io, acme.co
\* (the legal suffix is stripped), in this order, going on to the next only
\* when a lookup has failed; the first that resolves becomes
\* company_domain, and with none resolving there is no company_domain.
C13_AcmeGuesses ==
    \A t \in DOMAIN fr :
        LET f == fr[t]
            slug == <<"a","c","m","e">>
            expected == <<slug \o T_com, slug \o T_io, slug \o T_co>>
            lookups == MxLookups(f)
            n == Len(lookups)
        IN (/\ submitted[f.li]["company"] = C_acme
            /\ ~ submitted[f.li]["headline"].truthy) =>
              /\ n <= 3
              /\ \A i \in DOMAIN lookups : lookups[i][2] = expected[i]
              /\ \A i \in 1..(n - 1) : ~ lookups[i][3]
              /\ Returned(f) =>
                    /\ (~ f.website_is_useful \/ f.site_emails = <<>>) => n >= 1
                    /\ IF n >= 1 /\ lookups[n][3]
                       THEN f.enriched["company_domain"] = expected[n]
                       ELSE /\ ~ Has(f.enriched, "company_domain")
                            /\ n \in {0, 3}

\* a call on a lead of company "Acme Corp" has returned with company_domain
\* acme.io, after the lookup of acme.com had failed
C13_Witness ==
    \E t \in DOMAIN fr :
        /\ Returned(fr[t])
        /\ submitted[fr[t].li]["company"] = C_acme
        /\ Len(MxLookups(fr[t])) = 2
        /\ ~ MxLookups(fr[t])[1][3]
        /\ fr[t].enriched["company_domain"] = <<"a","c","m","e",".","i","o">>

\* C14: whenever an exception of the except clause (connection, timeout,
\* disconnect) occurs in the SMTP phase of a call, at connect / HELO / MAIL
\* FROM, at the first RCPT TO or at the second, _verify_email_smtp returns
\* exists = false and accept_all = false, with a score of the MX base 10
\* plus 20, which is within 0..100.
C14_ExceptionInconclusive ==
    (/\ call.pc = "verified"
     /\ Len(Split(call.email, "@")) = 2 /\ Split(call.email, "@")[2] # <<>>
     /\ IsAscii(call.email)
     /\ call.a.mx
     /\ "exc" \in {call.a.pre, call.a.rcpt1, call.a.rcpt2}) =>
        /\ ~ call.result[1].raised
        /\ ~ call.result[1].exists
        /\ ~ call.result[1].accept_all
        /\ call.result[1].score = 10 + 20
        /\ 0 <= call.result[1].score /\ call.result[1].score <= 100

\* C15: the address the Pattern Detector projects becomes a 'pattern'
\* candidate only if it differs, letter case aside, from every known
\* address at the work domain.
C15_PatternCandidateIsNew ==
    call.pc = "predicted" =>
        \A i \in DOMAIN call.result :
            call.result[i][2] = "pattern" =>
                \A j \in DOMAIN call.site_emails :
                    Lower(call.result[i][1]) # Lower(call.site_emails[j])

\* C16: _detect_pattern returns 'first.last' exactly for two dot-separated
\* tokens, neither empty, the first longer than one character; 'f.last'
\* exactly for a single letter, a dot and a token; 'first' exactly for a
\* bare alphabetic token; and no pattern for every other local part. The
\* pattern of jane.doe projected on "Bob Smith" at acme.io is
\* bob.smith@acme.io.
C16_DetectPatternClasses ==
    /\ call.pc = "detected" =>
          LET toks == Split(call.local_part, ".")
              AllLetters(tok) == \A i \in DOMAIN tok : IsLowerLetter(tok[i])
          IN call.result[1] =
                (IF Len(toks) = 2 /\ Len(toks[1]) > 1 /\ toks[2] # <<>>
                 THEN "first.last"
                 ELSE IF /\ Len(toks) = 2 /\ Len(toks[1]) = 1 /\ AllLetters(toks[1])
                         /\ toks[2] # <<>>
                 THEN "f.last"
                 ELSE IF Len(toks) = 1 /\ toks[1] # <<>> /\ AllLetters(toks[1])
                 THEN "first"
                 ELSE "")
    /\ (call.pc = "predicted" /\ call.full_name = N_bob /\ call.site_emails = <<E_jane>>) =>
          call.result = <<<<Lower(E_BOBS), "pattern">>>>

\* C17: a non-empty website is taken as a real business site, and
\* deep-scraped, exactly when its host is not one of the listed
\* link-aggregator / social domains (nor a subdomain of one); a host that
\* only contains the letters of a listed domain, such as netflix.com, is
\* usable.
C17_UsableIffHostNotListed ==
    \A t \in DOMAIN fr :
        LET website == GetText(submitted[fr[t].li], "website")
            host == _extract_domain(website)
            listed == \E i \in DOMAIN useless_domains :
                         \/ Lower(host) = useless_domains[i]
                         \/ EndsWith(Lower(host), <<".">> \o useless_domains[i])
        IN (fr[t].pc # "idle" /\ Truthy(website)) =>
              (fr[t].website_is_useful <=> ~ listed)

\* C18: whenever the website of the lead is usable, the work domain of the
\* call (pattern detection, SMTP guessing, possible_emails) is the host of
\* the website without 'www.', whatever the Domain Resolver found.
C18_WorkDomainIsWebsiteHost ==
    \A t \in DOMAIN fr :
        (Returned(fr[t]) /\ fr[t].website_is_useful) =>
            LET host == _extract_domain(GetText(submitted[fr[t].li], "website")) IN
            /\ fr[t].work_domain = host
            /\ \A i \in DOMAIN fr[t].log :
                  fr[t].log[i][1] = "guess" => EmailDomain(fr[t].log[i][2]) = host
            /\ \A i \in DOMAIN Get(fr[t].enriched, "possible_emails", <<>>) :
                  EmailDomain(fr[t].enriched["possible_emails"][i]) = host

\* C19: step 5 probes a guess only when the lead has a full name, the
\* call has a work domain and no candidate came from the bio, the website
\* or the pattern; the probes are the first templated guesses, at most
\* five, in list order, each once; no probe follows a guess reported as
\* existing by a server that is not catch-all, and that guess, and no
\* other, becomes the 'smtp_guess' candidate.
C19_SmtpGuessing ==
    \A t \in DOMAIN fr :
        LET f == fr[t]
            full_name == GetText(submitted[f.li], "full_name")
            guesses == SelectSeq(f.log, LAMBDA entry : entry[1] = "guess")
            n == Len(guesses)
            templated == _generate_email_candidates(full_name, T_https \o f.work_domain)
            accepted == n >= 1 /\ guesses[n][3] /\ ~ guesses[n][4]
        IN /\ f.pc = "guess" => n < 5 /\ ~ accepted
           /\ n >= 1 =>
                 /\ Truthy(full_name) /\ Truthy(f.work_domain)
                 /\ \A k \in DOMAIN f.email_candidates :
                       f.email_candidates[k][2] \notin {"bio", "website", "pattern"}
                 /\ n <= 5 /\ n <= Len(templated)
                 /\ \A i \in 1..n : guesses[i][2] = templated[i]
                 /\ \A i, j \in 1..n : i < j => guesses[i][2] # guesses[j][2]
                 /\ \A i \in 1..(n - 1) : ~ (guesses[i][3] /\ ~ guesses[i][4])
           /\ SelectSeq(f.email_candidates, LAMBDA c : c[2] = "smtp_guess")
                 = (IF accepted THEN <<<<guesses[n][2], "smtp_guess">>>> ELSE <<>>)

\* a call has returned the third guess as its email: the first guess was
\* reported as existing by a catch-all server, the second as not existing
C19_Witness ==
    \E t \in DOMAIN fr :
        LET guesses == SelectSeq(fr[t].log, LAMBDA entry : entry[1] = "guess") IN
        /\ Returned(fr[t])
        /\ Len(guesses) = 3
        /\ guesses[1][3] /\ guesses[1][4]
        /\ ~ guesses[2][3]
        /\ guesses[3][3] /\ ~ guesses[3][4]
        /\ fr[t].enriched["email"] = guesses[3][2]
        /\ fr[t].enriched["email_source"] = "smtp_guess"

\* C20: the templated guesses are generated, and probed, in the order
\* first.last, first, firstlast, f.last, flast, contact, info: for a name
\* 'First Last' the fourth is f.last@domain and the fifth flast@domain.
C20_GuessOrder ==
    \A t \in DOMAIN fr :
        LET f == fr[t]
            parts == NameParts(GetText(submitted[f.li], "full_name"))
            first == parts[1]
            last == parts[Len(parts)]
            at == <<"@">> \o f.work_domain
            expected == << first \o <<".">> \o last \o at,
                          first \o at,
                          first \o last \o at,
                          <<first[1]>> \o <<".">> \o last \o at,
                          <<first[1]>> \o last \o at,
                          T_contact_at \o f.work_domain,
                          T_info_at \o f.work_domain >>
            guesses == SelectSeq(f.log, LAMBDA entry : entry[1] = "guess")
        IN /\ \A i \in DOMAIN guesses : guesses[i][2] = expected[i]
           /\ (Returned(f) /\ Has(f.enriched, "possible_emails")) =>
                 f.enriched["possible_emails"] = expected

\* C21: the returned record has possible_emails exactly when it has no
\* email and the lead has a full name and the call a work domain; it then
\* lists the 7 templated guesses, for a one-word name too.
C21_PossibleEmailsSeven ==
    \A t \in DOMAIN fr :
        Returned(fr[t]) =>
            LET e == fr[t].enriched
                full_name == GetText(submitted[fr[t].li], "full_name")
            IN /\ Has(e, "possible_emails") <=>
                     /\ ~ Truthy(GetText(e, "email"))
                     /\ Truthy(full_name)
                     /\ Truthy(fr[t].work_domain)
               /\ Has(e, "possible_emails") =>
                     /\ Len(e["possible_emails"]) = 7
                     /\ \A i \in 1..7 :
                           EmailDomain(e["possible_emails"][i]) = fr[t].work_domain

----------------------------------------------------------------------------
(* _deep_scrape_website on its own: every page of the site may fail or
   carry any of a few contents *)

\* a page with a phone and only a blacklisted address, and a page whose
\* first match is blacklisted
P_phone == [ok |-> TRUE, emails |-> <<E_bad>>, phone |-> PH_link]
P_late == [ok |-> TRUE, emails |-> <<E_bad, E_jane>>, phone |-> None]
ScrapePages == {NoPage, P_home, P_contact, P_phone, P_late}
ScrapeSites == {W_acme, W_acme \o <<"/">>}

InitScrape ==
    /\ mode = "scrape"
    /\ api_key = FALSE
    /\ leads = <<>> /\ submitted = <<>> /\ fr = <<>>
    /\ env = NoAnswers
    /\ NoBulk
    /\ \E website \in ScrapeSites :
          call = [pc |-> "scrape", website |-> website,
                  sc |-> NewScrape(website, "site"), seen |-> <<>>,
                  result |-> <<>>]

\* one turn of the loop of lines 224-244
FetchPage ==
    /\ call.pc = "scrape"
    /\ \E page \in ScrapePages :
         LET sc == ScrapeIteration(call.sc, page) IN
         call' = [call EXCEPT !.sc = sc,
                              !.seen = Append(call.seen, <<Head(call.sc.pages), page>>),
                              !.pc = IF sc.pages = <<>> THEN "scraped" ELSE "scrape"]
    /\ UNCHANGED <<leads, submitted, api_key, fr, env, mode, max_workers, futures,
                   results, bpc>>

\* lines 246-247
DeepScrapeReturn ==
    /\ call.pc = "scraped"
    /\ \E all_emails \in SetOrders(call.sc.all_emails) :
         call' = [call EXCEPT !.pc = "returned",
                              !.result = <<[email |-> call.sc.email,
                                            phone |-> call.sc.phone,
                                            all_emails |-> all_emails]>>]
    /\ UNCHANGED <<leads, submitted, api_key, fr, env, mode, max_workers, futures,
                   results, bpc>>

NextScrape == FetchPage \/ DeepScrapeReturn

SpecScrape == InitScrape /\ [][NextScrape]_vars

\* C22: the deep scrape fetches the site, /contact, /contact-us, /about and
\* /about-us in that order, each at most once, and no page once an email
\* and a phone are both found; a page that fails is skipped and the scrape
\* goes on; the email it returns is the first valid address of the earliest
\* fetched page that has one, and all_emails holds, once each, the valid
\* addresses of the pages fetched.
C22_DeepScrapeOrder ==
    LET seen == call.seen
        order == <<call.website, W_acme \o T_contact, W_acme \o T_contact_us,
                   W_acme \o T_about, W_acme \o T_about_us>>
        Valid(i) == SelectSeq(seen[i][2].emails, _is_valid_email)
        HasEmail(i) == seen[i][2].ok /\ Valid(i) # <<>>
        BothBy(n) == /\ \E i \in 1..n : HasEmail(i)
                     /\ \E i \in 1..n : seen[i][2].ok /\ Truthy(seen[i][2].phone)
        withEmail == {i \in 1..Len(seen) : HasEmail(i)}
        first == CHOOSE i \in withEmail : \A j \in withEmail : i <= j
    IN /\ Len(seen) <= 5
       /\ \A i \in 1..Len(seen) : seen[i][1] = order[i]
       /\ \A n \in 1..(Len(seen) - 1) : ~ BothBy(n)
       /\ call.pc \in {"scraped", "returned"} => Len(seen) = 5 \/ BothBy(Len(seen))
       /\ call.pc = "returned" =>
             LET result == call.result[1] IN
             /\ result.email = IF withEmail = {} THEN None ELSE Valid(first)[1]
             /\ Range(result.all_emails) =
                   UNION {Range(Valid(i)) : i \in withEmail}
             /\ \A i, j \in 1..Len(result.all_emails) :
                   result.all_emails[i] = result.all_emails[j] => i = j

\* the home page fails, a later page gives the email, and the scrape stops
\* before the fifth page
C22_Witness ==
    /\ call.pc = "returned"
    /\ ~ call.seen[1][2].ok
    /\ Len(call.seen) < 5
    /\ call.result[1].email = E_jane
    /\ Len(call.result[1].all_emails) >= 2

\* C23: for a candidate of one of the seven sources the score is
\* base(source) + pattern bonus + 10 if the verifier reports existence - 20
\* if it reports a catch-all domain, kept within 0..100, with bases bio 90,
\* hunter 80, website 70, smtp_guess 70, bio_link 65, contact_page 60,
\* pattern 40 and, for a pattern candidate, +15 with at least 3 site emails
\* and else +10 with at least 1; the score of the verifier plays no part.
C23_ScoreFormula ==
    LET base == CASE call.source = "bio" -> 90
                  [] call.source = "hunter.io" -> 80
                  [] call.source = "website" -> 70
                  [] call.source = "smtp_guess" -> 70
                  [] call.source = "bio_link" -> 65
                  [] call.source = "contact_page" -> 60
                  [] call.source = "pattern" -> 40
                  [] OTHER -> 0
        bonus == IF call.source # "pattern" THEN 0
                 ELSE IF call.site_emails_count >= 3 THEN 15
                 ELSE IF call.site_emails_count >= 1 THEN 10 ELSE 0
        Expected(accept_all) ==
            LET sum == base + bonus + (IF call.exists THEN 10 ELSE 0)
                          - (IF accept_all THEN 20 ELSE 0)
            IN IF sum < 0 THEN 0 ELSE IF sum > 100 THEN 100 ELSE sum
    IN (call.pc = "score" /\ call.source # "other") =>
          /\ call.flagged # <<>> => call.flagged[1].score = Expected(TRUE)
          /\ call.plain # <<>> => call.plain[1].score = Expected(FALSE)

\* a pattern candidate with three site emails, on a catch-all domain, the
\* verifier having scored the address 90
C23_Witness ==
    /\ call.pc = "score"
    /\ call.source = "pattern" /\ call.site_emails_count = 3
    /\ call.exists /\ call.score = 90
    /\ call.flagged # <<>> /\ call.flagged[1].score = 45
    /\ call.plain # <<>> /\ call.plain[1].score = 65

----------------------------------------------------------------------------
(* The end of enrich_lead (lines 125-137) on its own: any record, any best
   candidate *)

FollowerCounts ==
    {<<>>} \cup {<<n>> : n \in {-1, 0, 1, 999, 1000, 4999, 5000, 50000, 50001,
                                100000, 100001}}

BestCandidates ==
    {NoBest,
     [email |-> E_BOBS, score |-> 90, source |-> "hunter.io", verified |-> TRUE,
      accept_all |-> FALSE],
     [email |-> E_BOBG, score |-> 100, source |-> "bio", verified |-> TRUE,
      accept_all |-> FALSE]}

InitLead ==
    /\ mode = "lead"
    /\ api_key = FALSE
    /\ leads = <<>> /\ submitted = <<>> /\ fr = <<>>
    /\ env = NoAnswers
    /\ NoBulk
    /\ \E bio \in {NoText, B_word}, website \in {None, W_acme},
          followers \in FollowerCounts, verified \in BOOLEAN,
          phone \in {None, PH_old}, email \in {None, E_jane},
          best \in BestCandidates :
          LET l0 == Lead(None, bio, website, None, followers, verified)
              l1 == IF Truthy(phone) THEN Put(l0, "phone", phone) ELSE l0
              lead_data == IF Truthy(email) THEN Put(l1, "email", email) ELSE l1
          IN call = [pc |-> "publish", lead_data |-> lead_data,
                     f |-> [Frame0(1) EXCEPT !.pc = "publish",
                                             !.enriched = lead_data,
                                             !.best = best]]

Publish ==
    /\ call.pc = "publish"
    /\ call' = [call EXCEPT !.pc = "done",
                            !.f = PublishBlock(call.f, call.lead_data)]
    /\ UNCHANGED <<leads, submitted, api_key, fr, env, mode, max_workers, futures,
                   results, bpc>>

NextLead == Publish

SpecLead == InitLead /\ [][NextLead]_vars

\* C24: lead_score is min(100, 30 if the record has an email (+5 if its
\* source is the third-party finder) + 30 if it has a phone + 10 if
\* is_verified + follower bonus + 10 if it has a website + 5 if the bio has
\* a business keyword), the follower bonus being 15 in [5000,50000], else 10
\* in [1000,100000], else 5 above 0, else 0; the email and the phone are
\* those of the finished record.
C24_LeadScoreFormula ==
    (call.pc = "done" /\ call.f.pc = "returned") =>
        LET e == call.f.enriched
            n == e["follower_count"][1]
            has_email == Has(e, "email") /\ Truthy(e["email"])
            has_phone == Has(e, "phone") /\ Truthy(e["phone"])
            follower_bonus == IF n >= 5000 /\ n <= 50000 THEN 15
                              ELSE IF n >= 1000 /\ n <= 100000 THEN 10
                              ELSE IF n > 0 THEN 5 ELSE 0
            sum == (IF has_email THEN 30 ELSE 0)
                 + (IF has_email /\ Has(e, "email_source")
                       /\ e["email_source"] = "hunter.io" THEN 5 ELSE 0)
                 + (IF has_phone THEN 30 ELSE 0)
                 + (IF e["is_verified"] THEN 10 ELSE 0)
                 + follower_bonus
                 + (IF Truthy(e["website"]) THEN 10 ELSE 0)
                 + (IF e["bio"].keyword THEN 5 ELSE 0)
        IN /\ Has(e, "lead_score")
           /\ e["lead_score"] = IF sum > 100 THEN 100 ELSE sum

\* the finder's address on a record with every other signal: 105 points,
\* returned as 100
C24_Witness ==
    /\ call.pc = "done" /\ call.f.pc = "returned"
    /\ ~ Has(call.lead_data, "email")
    /\ Get(call.f.enriched, "email_source", "") = "hunter.io"
    /\ call.f.enriched["follower_count"] = <<50000>>
    /\ call.f.enriched["lead_score"] = 100

\* C25: at any moment of enrich_bulk at most max_workers pipelines are
\* executing, and the pipeline of a submitted lead is started at most once
\* (a pipeline that has left its starting point never comes back to it).
C25_BoundedWorkers ==
    /\ [](Cardinality({t \in DOMAIN fr :
                          fr[t].pc \notin {"idle", "returned", "raised"}})
             <= max_workers)
    /\ [][\A t \in DOMAIN fr : fr[t].pc # "idle" => fr'[t].pc # "idle"]_vars

\* one worker, two leads: the first pipeline is executing while the second
\* lead, already submitted, waits
C25_Witness ==
    /\ bpc \in {"submit", "collect"}
    /\ max_workers = 1
    /\ Len(leads) = 2
    /\ fr[1].pc = "score" /\ fr[2].pc = "idle"
    /\ futures[2] = "pending"

----------------------------------------------------------------------------
(* enrich_bulk on a batch that holds the same lead twice, first and last,
   every capability giving the same answer to the same request: a lead with
   a website, or a lead with a link in its bio, with or without another
   lead between its two copies *)

ShareTwins ==
    {Lead(N_bob, NoText, W_acme, None, <<0>>, FALSE),
     Lead(N_bob, B_link, None, None, <<0>>, FALSE)}
ShareOthers ==
    {Lead(N_bob, B_mail, None, None, <<0>>, FALSE)}

InitShared ==
    /\ mode = "shared"
    /\ api_key = FALSE
    /\ \E twin \in ShareTwins, between \in {<<>>} \cup {<<o>> : o \in ShareOthers} :
          /\ Truthy(GetText(twin, "website")) => between = <<>>
          /\ leads = <<twin>> \o between \o <<twin>>
    /\ submitted = leads
    /\ fr = [t \in DOMAIN leads |-> Frame0(t)]
    /\ env = NoAnswers
    /\ max_workers \in 1..MaxWorkers
    /\ futures = [i \in DOMAIN leads |-> "new"]
    /\ results = <<>>
    /\ bpc = "submit"
    /\ call = NoCall

NextShared ==
    \/ Submit
    \/ \E t \in DOMAIN fr : Start(t)
    \/ \E t \in DOMAIN fr : Fetch(t)
    \/ \E t \in DOMAIN fr : ScrapeReturn(t)
    \/ \E t \in DOMAIN fr : SmtpGuess(t)
    \/ \E t \in DOMAIN fr : LinkFetch(t)
    \/ \E t \in DOMAIN fr : ScoreOne(t)
    \/ \E i \in DOMAIN futures : Collect(i)
    \/ Return

SpecShared == InitShared /\ [][NextShared]_vars

----------------------------------------------------------------------------
(* One call of enrich_lead, or one call of enrich_bulk, every external call
   answering (with a result or a timeout) and every runnable thread being
   run: a step that can be taken is eventually taken *)

InitLive == InitSingle \/ InitBulk

NextLive ==
    \/ Next
    \/ Submit
    \/ \E i \in DOMAIN futures : Collect(i)
    \/ Return

SpecLive == InitLive /\ [][NextLive]_vars /\ WF_vars(NextLive)

AllFinished == \A t \in DOMAIN fr : Finished(fr[t])

\* what is left to do, as a number: the position of a call in the order
\* of its steps, and the items it still has to go through at that position
Remaining(f) ==
    LET stage == CASE f.pc = "idle" -> 9
                   [] f.pc \in {"scrape", "scraped"} /\ f.scrape.ret = "site" -> 8
                   [] f.pc = "mx" -> 7
                   [] f.pc \in {"scrape", "scraped"} -> 6
                   [] f.pc = "guess" -> 5
                   [] f.pc = "hunter" -> 4
                   [] f.pc = "links" -> 3
                   [] f.pc = "score" -> 2
                   [] OTHER -> 0
        items == CASE f.pc = "scrape" -> 1 + Len(f.scrape.pages)
                   [] f.pc \in {"mx", "guess", "links", "score"} -> Len(f.queue)
                   [] OTHER -> 0
    IN 16 * stage + items

RECURSIVE SumRemaining(_)
SumRemaining(n) == IF n = 0 THEN 0 ELSE Remaining(fr[n]) + SumRemaining(n - 1)

\* the steps enrich_bulk has left: a submit and a collect for each future,
\* and the return
BulkRemaining ==
    Cardinality({i \in DOMAIN futures : futures[i] = "new"})
    + Cardinality({i \in DOMAIN futures : futures[i] # "collected"})
    + (IF bpc \in {"submit", "collect"} THEN 1 ELSE 0)

\* a call is waiting for an external call to answer, or a step of the
\* program can run
CanStep ==
    \/ \E t \in DOMAIN fr :
          fr[t].pc \in {"scrape", "scraped", "mx", "guess", "hunter", "links", "score"}
    \/ \E t \in DOMAIN fr : CanStart(t)
    \/ bpc = "submit"
    \/ bpc = "collect" /\ \E i \in DOMAIN futures : futures[i] = "done"
    \/ bpc = "collect" /\ \A i \in DOMAIN futures : futures[i] = "collected"

\* C27: every external call answering, a call of enrich_lead makes a bounded
\* number of external calls, none of them twice for the same step and
\* request, and ends; enrich_bulk returns, and not before the pipeline of
\* every submitted lead has completed or failed. In the form a finite run
\* refutes: every step uses up part of a finite amount of work left, no
\* state short of the end is without a step to take or an answer to wait
\* for, and enrich_bulk has not returned while a pipeline is unfinished.
C27_Terminates ==
    /\ [][SumRemaining(Len(fr)) + BulkRemaining
            > SumRemaining(Len(fr))' + BulkRemaining']_vars
    /\ []((AllFinished /\ bpc \in {"off", "returned"}) \/ CanStep)
    /\ [](bpc = "returned" => AllFinished)
    /\ [](\A t \in DOMAIN fr :
             LET log == fr[t].log
                 Count(tag) == Cardinality({i \in 1..Len(log) : log[i][1] = tag})
             IN /\ Count("fetch") <= 5 + 3
                /\ Count("mx") <= 3 * 4
                /\ Count("guess") <= 5
                /\ Count("hunter") <= 1
                /\ Count("smtp") <= Len(fr[t].unique)
                /\ Len(fr[t].unique) <= 8
                /\ \A i, j \in 1..Len(log) :
                      (log[i][1] = log[j][1] /\ log[i][2] = log[j][2]) => i = j)

\* a call that fetched five pages, probed five guesses and scored a
\* candidate has returned; and a batch of two leads, one of which failed,
\* has been returned
C27_Witness ==
    \/ /\ mode = "single"
       /\ fr[1].pc = "returned"
       /\ Cardinality({i \in 1..Len(fr[1].log) : fr[1].log[i][1] = "fetch"}) = 5
       /\ Cardinality({i \in 1..Len(fr[1].log) : fr[1].log[i][1] = "guess"}) = 5
    \/ /\ mode = "bulk"
       /\ bpc = "returned"
       /\ Len(leads) = 2
       /\ fr[1].pc = "raised" /\ fr[2].pc = "returned"

\* C28: a returned record whose email_source is 'smtp_guess' has
\* email_verified true and email_score 80, whatever the SMTP capability
\* answers when the scorer probes the address a second time.
C28_SmtpGuessVerified80 ==
    \A t \in DOMAIN fr :
        (Returned(fr[t]) /\ Get(fr[t].enriched, "email_source", "") = "smtp_guess") =>
            /\ fr[t].enriched["email_verified"] = TRUE
            /\ fr[t].enriched["email_score"] = 80

\* C29: when the bio gives a valid email, the returned record has an email
\* with email_score at least 70 and its source is not 'pattern', whatever
\* the SMTP capability answers (a pattern candidate scores at most 65).
C29_BioBeatsPattern ==
    \A t \in DOMAIN fr :
        LET bio == submitted[fr[t].li]["bio"]
            found == bio.truthy /\ \E i \in 1..Len(bio.emails) : _is_valid_email(bio.emails[i])
        IN /\ (Returned(fr[t]) /\ found) =>
                 /\ Truthy(GetText(fr[t].enriched, "email"))
                 /\ Has(fr[t].enriched, "email_score")
                 /\ fr[t].enriched["email_score"] >= 70
                 /\ fr[t].enriched["email_source"] # "pattern"
           /\ \A k \in 1..Len(fr[t].scored) :
                 fr[t].scored[k].source = "pattern" => fr[t].scored[k].score <= 65

\* a call with a bio candidate and a pattern candidate, both scored, the bio
\* address on a catch-all domain: it is published with score 70
C29_Witness ==
    \E t \in DOMAIN fr :
        /\ Returned(fr[t])
        /\ \E k \in 1..Len(fr[t].scored) : fr[t].scored[k].source = "pattern"
        /\ fr[t].enriched["email_source"] = "bio"
        /\ fr[t].enriched["email_score"] = 70

\* C30: the phone of the record is that of the earliest source that gave
\* one, in the order bio, deep scrape of the website or of the company
\* domain, bio links; a phone of the input record gives way to the phone of
\* the bio only; and once set, the phone is not replaced. Stated of every
\* moment of a call outside the deep scrape, whose result the caller has
\* then not yet received.
C30_PhonePrecedence ==
    \A t \in DOMAIN fr :
        fr[t].pc \notin {"idle", "scrape", "scraped"} =>
            LET lead == submitted[fr[t].li]
                log == fr[t].log
                linked(url) == Contains(url, <<"l","i","n","k","t","r">>)
                FetchedOk(i) == log[i][1] = "fetch" /\ log[i][3]
                from_bio == lead["bio"].truthy /\ Truthy(lead["bio"].phone)
                from_scrape == \E i \in 1..Len(log) :
                                  /\ FetchedOk(i) /\ ~ linked(log[i][2])
                                  /\ EndsWith(log[i][2], T_contact)
                from_link == \E i \in 1..Len(log) : FetchedOk(i) /\ linked(log[i][2])
                expected == IF from_bio THEN lead["bio"].phone
                            ELSE IF Truthy(GetText(lead, "phone")) THEN lead["phone"]
                            ELSE IF from_scrape THEN PH_site
                            ELSE IF from_link THEN PH_link
                            ELSE None
            IN GetText(fr[t].enriched, "phone") = expected

\* the contact page of the website gave a phone, the linked page gave one
\* later, and the record is returned with the phone of the website
C30_Witness ==
    \E t \in DOMAIN fr :
        /\ Returned(fr[t])
        /\ ~ Has(submitted[fr[t].li], "phone")
        /\ \E i \in 1..Len(fr[t].log) :
              /\ fr[t].log[i][1] = "fetch" /\ fr[t].log[i][3]
              /\ Contains(fr[t].log[i][2], <<"l","i","n","k","t","r">>)
        /\ fr[t].enriched["phone"] = PH_site

====
